---- MODULE Spec2Model ----
(***************************************************************************)
(* A model of src/App.tsx: the file-transcription pipeline (chunking,      *)
(* offset shift, cooperative cancellation), the live-capture reconciler    *)
(* (partial text, turn boundaries, stop) and the batched subtitle          *)
(* translation.  The component runs on one JavaScript thread: the code     *)
(* between two awaits is one atomic step, and every await, timer, network  *)
(* response and re-render is a step of its own.                            *)
(***************************************************************************)
EXTENDS Integers, Sequences, FiniteSets, TLC

\* ------------------------------------------------------------ constants

CHUNK_DURATION_SECONDS == 55
SRT_TRANSLATE_CHUNK_SIZE == 50

\* Seconds are represented in ticks of 0.1 ms, so that a response can carry a
\* time that is not a whole number of milliseconds and Math.round matters.
TicksPerMs == 5 + 5
TicksPerSecond == 1000 * TicksPerMs

\* ---------------------------------------------------------------- bounds

MaxJobs == 1        \* file-transcription invocations in one run
MaxResp == 2        \* segments in one transcription response
MaxRequests == 3    \* transcription requests issued in one run

JobIds == 1..MaxJobs

\* The invocations a run has room for: one more than the uploads of the
\* runs of a single pipeline, for the runs in which a file is uploaded again.
JobSlots == 1..(MaxJobs + 1)

MaxStops == 2       \* invocations of handleStopRecording in one run
MaxPartials == 2    \* partial-text events in one run
MaxTurns == 2       \* turn-complete events in one run
MaxTime == 1        \* steps of the clock in one run

StopIds == 1..MaxStops

MaxSrtJobs == 1     \* invocations of handleSrtTranslate in one run
MaxReads == 1       \* reads of subtitle files in flight at once

SrtJobIds == 1..MaxSrtJobs

\* The invocations of handleSrtTranslate of a run in which one more is started
\* while the others are under way.
SrtJobSlots == 1..(MaxSrtJobs + 1)

MaxTranslations == 1   \* invocations of handleTranslate in one run

TrJobIds == 1..MaxTranslations

MaxPlanTotal == 170    \* the longest buffer (seconds) given to the chunk planner

\* The durations of the buffers the chunk planner is called with: line 529
\* sends every buffer longer than CHUNK_DURATION_SECONDS to it.
PlanTotals == (CHUNK_DURATION_SECONDS + 1)..MaxPlanTotal

\* The numbers of records of the subtitle files: none that parses, one,
\* a full batch, one more than a batch, one more than two batches.
DocSizes == {0, 1, SRT_TRANSLATE_CHUNK_SIZE, SRT_TRANSLATE_CHUNK_SIZE + 1,
             2 * SRT_TRANSLATE_CHUNK_SIZE + 1}

\* Date.now() when the component is mounted.
Epoch == 10 * 100

\* Durations (whole seconds) of the uploaded files: below, at and above the
\* chunk duration, and the 130 s file of the spec's scenario.
Durations == {55, 56, 130}

\* The (startTime, endTime) pairs a response entry may carry, in ticks.
\* 5125 ticks = 0.5125 s = 512.5 ms: a half that Math.round takes up.
RawSpans == << <<5125, 21230>>, <<21234, 549996>> >>

\* The spans of a response whose entries break the schema's meaning: an
\* entry that ends before it starts, and one that starts before 0.
SkewedSpans == << <<21234, 5125>>, <<0 - 5125, 21230>> >>

\* The number an arithmetic expression over a missing (undefined) field
\* yields.  No number of the model comes near this value.
NaN == 0 - 2147483647

NULL == "null"

\* cancelledAt of a job no cancel has hit.
NotCancelled == [chunk |-> 0 - 2, pc |-> "none"]

\* The null startTime of a partial segment (times are numbers here).
NoTime == 0 - 1

\* useState({ text: '', startTime: null })
EmptySegment == [text |-> << >>, startTime |-> NoTime]

\* A message without a partial text.
NoText == << >>

\* A subtitle text: text v of record pos of the file with doc records; v = 0
\* is the text in the file, v > 0 a translation of it.  EmptyString is ''.
SrtText(doc, pos, v) == [doc |-> doc, pos |-> pos, v |-> v]

EmptyString == SrtText(0, 0, 0)

\* useState<string | null>(null) of translatedSrtContent and srtError.
NoContent == << >>

NoError == [kind |-> "null", chunk |-> 0, expected |-> 0, got |-> 0]

\* useState<string | null>(null) of srtFileName; a file is named by the
\* number of its blocks.
NoFile == 0 - 1

\* response.text of a translation response that carries no text.
NoResponse == [kind |-> "missing", value |-> << >>]

\* An invocation of handleTranslate that has not been made.
TrUnused == [pc |-> "unused", segs |-> << >>, text |-> NoResponse]

\* An invocation of handleSrtTranslate that has not been made.
\* no AudioBuffer: a buffer without channels
NoBuffer == [length |-> 0, numberOfChannels |-> 0, sampleRate |-> 0, wave |-> 0]

\* no subtitle document: a document is given by the kinds of its blocks and
\* by its line ends
NoDoc == [blocks |-> << >>, eol |-> 0]

SrtUnused == [pc |-> "unused", segs |-> << >>, i |-> 0, all |-> << >>,
              sent |-> << >>, got |-> << >>]

VARIABLES
    \* React state of the scribe tab
    status, error, segments, progress, progressLabel,
    currentSegment,
    \* refs
    isTranscriptionCancelledRef, recordingStartTimeRef, currentSegmentRef,
    \* one entry per invocation of processAndTranscribeFile: its position
    \* (pc), the decoded duration, the loop variable i
    jobs,
    \* history: what the user did last, where each job was (chunk, pc) when
    \* the first cancel hit it, the requests each job issued
    lastOp, cancelledAt, reqs,
    \* live capture: Date.now(), the position of handleStartRecording and of
    \* each invocation of handleStopRecording, the refs of the capture
    \* resources, whether the session still delivers events
    now, recPc, stops, streamRef, scriptProcessorRef, audioContextRef,
    sessionPromiseRef, sessionOpen,
    \* history of the live events: the number of partial-text and of
    \* turn-complete events, the words received, the words received before
    \* the manual stop, and the segment list and partial segment a
    \* reconciler that reads the accumulated text itself would hold
    partials, turns, words, heardAtStop, turnPartial, turnSegments,
    \* the time, from the start of the recording, of the last turn-complete
    \* event and of the first partial-text event received since (NoTime
    \* when there is none)
    boundaryAt, firstPartialAt,
    \* React state of the subtitle translator
    srtFileName, srtSegments, translatedSrtContent, srtStatus, srtError,
    srtProgress, srtProgressLabel,
    \* the reads of selected subtitle files that are in flight, and one entry
    \* per invocation of handleSrtTranslate: its position, the records it
    \* closed over, its loop variable and allTranslatedTexts, with the history
    \* of the batches it sent and the responses it got
    reads, srtJobs,
    \* the handler of the subtitle translator that ran last
    srtLastOp,
    \* React state of the segment translation, and one entry per invocation
    \* of handleTranslate: its position, the segments it closed over and the
    \* text of the response it got
    translatedSegments, trJobs,
    \* the chunk planner on its own: the duration of the buffer
    \* chunkAndTranscribeAudio was called with (0 before the call) and the
    \* (offset, chunkDuration) of the passes of its loop so far
    planTotal, plan,
    \* formatSrtTime on its own: the argument of the last call (NoTime before
    \* the first) and the string it returned
    formatMs, formatted,
    \* audioBufferToWav on its own: the buffer of the last call (no channel
    \* before the first) and the bytes of the Blob it returned
    wavBuffer, wavBytes,
    \* parseSrt on its own: the document of the last call (NoDoc before the
    \* first) and the records it returned
    srtContent, parsedSrt,
    \* and what parseSrt returns for the document rebuilt from those records
    reparsedSrt,
    \* the loop of chunkAndTranscribeAudio on its own: the decoded buffer
    \* (NoBuffer before the call) and the chunk buffers made so far
    audioBuffer, chunkBuffers,
    \* onaudioprocess on its own: the samples of the last input buffer and
    \* the Int16Array made of them
    inputData, int16,
    \* React state of the Listen button of the translation
    ttsStatus

fileVars == << status, error, segments, progress, progressLabel,
               isTranscriptionCancelledRef, jobs, lastOp, cancelledAt, reqs >>

scribeVars == << currentSegment, recordingStartTimeRef, currentSegmentRef >>

liveVars == << now, recPc, stops, streamRef, scriptProcessorRef, audioContextRef,
               sessionPromiseRef, sessionOpen >>

liveHistory == << partials, turns, words, heardAtStop, turnPartial, turnSegments,
                 boundaryAt, firstPartialAt >>

srtVars == << srtFileName, srtSegments, translatedSrtContent, srtStatus, srtError,
              srtProgress, srtProgressLabel, reads, srtJobs, srtLastOp >>

translateVars == << translatedSegments, trJobs >>

planVars == << planTotal, plan >>

\* the pure helpers on their own
formatVars == << formatMs, formatted >>

wavVars == << wavBuffer, wavBytes >>

parseVars == << srtContent, parsedSrt, reparsedSrt >>

extractVars == << audioBuffer, chunkBuffers >>

captureVars == << inputData, int16 >>

pureVars == << formatVars, wavVars, parseVars, extractVars, captureVars >>

vars == << fileVars, scribeVars, liveVars, liveHistory, srtVars, translateVars, planVars,
           pureVars, ttsStatus >>

\* ------------------------------------------------------- pure functions

\* s.startTime + timeOffsetSeconds, in ticks: NaN when the entry has no
\* number there.
PlusOffset(raw, timeOffsetSeconds) ==
    IF raw = NaN THEN NaN ELSE raw + timeOffsetSeconds * TicksPerSecond

\* Math.round: the nearest integer, a half going up; NaN stays NaN.
MathRound(ticks) ==
    IF ticks = NaN THEN NaN ELSE (ticks + (TicksPerMs \div 2)) \div TicksPerMs

\* A progress value is a reduced fraction << numerator, denominator >>.
RECURSIVE GCD(_, _)
GCD(a, b) == IF b = 0 THEN a ELSE GCD(b, a % b)

Whole(n) == << n, 1 >>

\* Math.ceil(totalDuration / CHUNK_DURATION_SECONDS)
NumChunks(totalDuration) ==
    (totalDuration + CHUNK_DURATION_SECONDS - 1) \div CHUNK_DURATION_SECONDS

\* A test that sends a buffer of exactly the chunk duration to the planner.
IsSingleUnitStrict(duration) == duration < CHUNK_DURATION_SECONDS

\* audioBuffer.duration <= CHUNK_DURATION_SECONDS, the test of line 529.
IsSingleUnit(duration) == duration <= CHUNK_DURATION_SECONDS

\* Offsets that step by five seconds less than the chunk duration.
ChunkOffsetTight(i) == i * (CHUNK_DURATION_SECONDS - 5)

\* const offset = i * CHUNK_DURATION_SECONDS
ChunkOffset(i) == i * CHUNK_DURATION_SECONDS

\* A chunk duration that ignores what is left of the buffer.
ChunkDurationFull(totalDuration, i) == CHUNK_DURATION_SECONDS

\* Math.min(CHUNK_DURATION_SECONDS, totalDuration - offset)
ChunkDuration(totalDuration, i) ==
    IF CHUNK_DURATION_SECONDS <= totalDuration - ChunkOffset(i)
      THEN CHUNK_DURATION_SECONDS
      ELSE totalDuration - ChunkOffset(i)

\* The raw span of entry k of a response: the spans alternate.
RawSpan(k) == RawSpans[((k - 1) % Len(RawSpans)) + 1]

\* The parsed response of one request, with n entries.  The text of an entry
\* names it (file, chunk, position), so entries are told apart in the list.
Response(j, c, n) ==
    [k \in 1..n |->
        [startTime |-> RawSpan(k)[1],
         endTime   |-> RawSpan(k)[2],
         text      |-> [job |-> j, chunk |-> c, k |-> k]]]

\* parsedSegments.map(s => ({text, startTime: Math.round((s.startTime +
\* timeOffsetSeconds) * 1000), endTime: ...}))
NewSegmentsNoOffset(parsedSegments, timeOffsetSeconds) ==
    [k \in 1..Len(parsedSegments) |->
        [text      |-> parsedSegments[k].text,
         startTime |-> MathRound(parsedSegments[k].startTime),
         endTime   |-> MathRound(parsedSegments[k].endTime)]]

NewSegments(parsedSegments, timeOffsetSeconds) ==
    [k \in 1..Len(parsedSegments) |->
        [text      |-> parsedSegments[k].text,
         startTime |-> MathRound(PlusOffset(parsedSegments[k].startTime,
                                            timeOffsetSeconds)),
         endTime   |-> MathRound(PlusOffset(parsedSegments[k].endTime,
                                            timeOffsetSeconds))]]

\* setSegments(prev => [...prev, ...newSegments])
AppendSegmentsFront(prev, newSegments) == newSegments \o prev

AppendSegments(prev, newSegments) == prev \o newSegments

\* Strings that the code takes apart are sequences of one-character strings.
DigitChars == << "0", "1", "2", "3", "4", "5", "6", "7", "8", "9" >>

\* Number.prototype.toString() of a non-negative integer
RECURSIVE NumberToString(_)
NumberToString(n) ==
    IF n < 10 THEN << DigitChars[n + 1] >>
    ELSE Append(NumberToString(n \div 10), DigitChars[(n % 10) + 1])

\* String.prototype.padStart(targetLength, pad) with a one-character pad
RECURSIVE PadStart(_, _, _)
PadStart(str, targetLength, pad) ==
    IF Len(str) >= targetLength THEN str
    ELSE PadStart(<< pad >> \o str, targetLength, pad)

\* String.prototype.slice(from, to) with 0 <= from <= to
StrSlice(str, from, to) ==
    SubSeq(str, from + 1, IF to < Len(str) THEN to ELSE Len(str))

\* new Date(0) followed by setMilliseconds(ms) holds the time value ms; the
\* getters getUTCHours, getUTCMinutes, getUTCSeconds, getUTCMilliseconds
\* read the hour of the day, the minute, the second and the millisecond.
MsPerSecond == 1000
MsPerMinute == 60 * MsPerSecond
MsPerHour == 60 * MsPerMinute
HoursPerDay == 24

GetUTCHours(t) == (t \div MsPerHour) % HoursPerDay
GetUTCMinutes(t) == (t \div MsPerMinute) % 60
GetUTCSeconds(t) == (t \div MsPerSecond) % 60
GetUTCMilliseconds(t) == t % MsPerSecond

\* formatSrtTime, lines 31-39
FormatSrtTime(ms) ==
    LET hours == PadStart(NumberToString(GetUTCHours(ms)), 2, "0")
        minutes == PadStart(NumberToString(GetUTCMinutes(ms)), 2, "0")
        seconds == StrSlice(PadStart(NumberToString(GetUTCSeconds(ms)), 3, "0"), 0, 2)
        milliseconds == PadStart(NumberToString(GetUTCMilliseconds(ms)), 3, "0")
    IN  hours \o << ":" >> \o minutes \o << ":" >> \o seconds \o << "," >> \o milliseconds

\* A sample of a Float32Array is a multiple of 1/SampleUnit, held as the
\* integer numerator: full scale is SampleUnit.
SampleUnit == 1024

\* buffer.getChannelData(c)[f]: the waveforms of the buffers encoded here
\* are full scale, negative full scale, a square wave of half scale, a ramp
\* over the whole range, and a signal outside [-1, 1].
GetChannelData(buffer, c, f) ==
    CASE buffer.wave = 1 -> SampleUnit
      [] buffer.wave = 2 -> 0 - SampleUnit
      [] buffer.wave = 3 -> IF (f + c) % 2 = 0 THEN SampleUnit \div 2 ELSE 0 - (SampleUnit \div 2)
      [] buffer.wave = 4 -> ((f * 37 + c * 11 + 1) % (2 * SampleUnit + 1)) - SampleUnit
      [] OTHER -> IF (f + c) % 2 = 0 THEN 2 * SampleUnit ELSE 0 - 2 * SampleUnit

\* Math.max(-1, Math.min(1, x))
Clamp(x) == IF x > SampleUnit THEN SampleUnit
            ELSE IF x < 0 - SampleUnit THEN 0 - SampleUnit ELSE x

\* x | 0 of the quotient n / SampleUnit: the fraction is dropped, towards 0
TruncateQuotient(n) == IF n >= 0 THEN n \div SampleUnit ELSE 0 - ((0 - n) \div SampleUnit)

\* lines 136-137: clamp, then scale to 16 bits
EncodeSample(x) ==
    LET sample == Clamp(x)
    IN  TruncateQuotient(IF SampleUnit \div 2 + sample < 0 THEN sample * 32768
                         ELSE sample * 32767)

\* The store of a number into an Int16Array element (ToInt16): the
\* fraction is dropped and the integer taken modulo 2^16 into
\* [-32768, 32767].
ToInt16(n) ==
    LET int == TruncateQuotient(n)
    IN  ((int + 32768) % 65536) - 32768

\* DataView.setUint16 / setUint32 (pos, data, littleEndian = true)
SetUint16(view, pos, data) ==
    [view EXCEPT ![pos + 1] = data % 256, ![pos + 2] = (data \div 256) % 256]

SetUint32(view, pos, data) ==
    [view EXCEPT ![pos + 1] = data % 256, ![pos + 2] = (data \div 256) % 256,
                 ![pos + 3] = (data \div 65536) % 256,
                 ![pos + 4] = (data \div 16777216) % 256]

WavHeaderLength == 44
RIFF == 1179011410      \* 0x46464952
WAVE == 1163280727      \* 0x45564157
FMT == 544501094        \* 0x20746d66
DATA == 1635017060      \* 0x61746164

\* the length of the ArrayBuffer, line 92
WavLength(buffer) == buffer.length * buffer.numberOfChannels * 2 + WavHeaderLength

\* lines 109-126: the header, written from pos = 0 to pos = 44
WavHeader(view, buffer) ==
    LET numOfChan == buffer.numberOfChannels
        length == WavLength(buffer)
        v1 == SetUint32(view, 0, RIFF)
        v2 == SetUint32(v1, 4, length - 8)
        v3 == SetUint32(v2, 8, WAVE)
        v4 == SetUint32(v3, 12, FMT)
        v5 == SetUint32(v4, 16, 16)
        v6 == SetUint16(v5, 20, 1)
        v7 == SetUint16(v6, 22, numOfChan)
        v8 == SetUint32(v7, 24, buffer.sampleRate)
        v9 == SetUint32(v8, 28, buffer.sampleRate * 2 * numOfChan)
        v10 == SetUint16(v9, 32, numOfChan * 2)
        v11 == SetUint16(v10, 34, 16)
        v12 == SetUint32(v11, 36, DATA)
    IN  SetUint32(v12, 40, length - 40 - 4)

\* lines 134-142: while (pos < length - 44) { ...; offset++ }, where each
\* pass moves pos by two bytes for every channel: the value of offset when
\* the loop is left, that is the number of frames written
RECURSIVE WavLoop(_, _, _)
WavLoop(buffer, pos, offset) ==
    IF pos < WavLength(buffer) - WavHeaderLength
    THEN WavLoop(buffer, pos + 2 * buffer.numberOfChannels, offset + 1)
    ELSE offset

\* the byte at position b (0-based) of the 16-bit little-endian data
Int16Byte(data, b) == IF b = 0 THEN (data % 65536) % 256 ELSE (data % 65536) \div 256

\* audioBufferToWav, lines 90-145: a zero-filled ArrayBuffer, the header,
\* and for every pass of the loop the samples of frame offset for the
\* channels i = 0 .. numOfChan - 1, written with view.setInt16(pos, sample,
\* true) at pos = 44 + 2 * (offset * numOfChan + i)
AudioBufferToWav(buffer) ==
    LET numOfChan == buffer.numberOfChannels
        length == WavLength(buffer)
        header == WavHeader([b \in 1..length |-> 0], buffer)
        written == WavLoop(buffer, WavHeaderLength, 0)
    IN  [b \in 1..length |->
            IF b <= WavHeaderLength THEN header[b]
            ELSE LET k == (b - 1 - WavHeaderLength) \div 2
                     offset == k \div numOfChan
                     i == k % numOfChan
                 IN  IF offset < written
                     THEN Int16Byte(EncodeSample(GetChannelData(buffer, i, offset)),
                                    (b - 1 - WavHeaderLength) % 2)
                     ELSE 0]

\* new Int16Array(data.buffer)[k]: the signed 16-bit number in the two bytes
\* from byte 2k, low byte first (the byte order of the platforms the
\* program runs on)
Int16At(data, k) ==
    LET u == data[2 * k + 1] + 256 * data[2 * k + 2]
    IN  IF u >= 32768 THEN u - 65536 ELSE u

\* the divisor of line 80; a decoded sample is held as its numerator over it
DecodeUnit == 32768

\* decodeAudioData(data, ctx, sampleRate, numChannels), lines 66-83: sample i
\* of channel channel is dataInt16[i * numChannels + channel] / 32768.0
DecodeAudioData(data, numChannels) ==
    LET frameCount == (Len(data) \div 2) \div numChannels
    IN  [channel \in 0..(numChannels - 1) |->
            [i \in 0..(frameCount - 1) |-> Int16At(data, i * numChannels + channel)]]

\* ------------------------------------------- frames of a chunk (doubles)

RECURSIVE Log2Floor(_)
Log2Floor(n) == IF n <= 1 THEN 0 ELSE 1 + Log2Floor(n \div 2)

\* the least p with n <= 2^p
Log2Ceil(n) == IF n <= 1 THEN 0 ELSE 1 + Log2Floor(n - 1)

RECURSIVE Pow2(_)
Pow2(k) == IF k = 0 THEN 1 ELSE 2 * Pow2(k - 1)

\* the significand of a double has 53 bits
SignificandBits == 53

\* k more bits of the quotient by d, by long division from the remainder
\* rem: << the remainder left, the last bit of the quotient >>
RECURSIVE DivideBits(_, _, _, _)
DivideBits(rem, d, k, bit) ==
    IF k = 0 THEN << rem, bit >>
    ELSE DivideBits(IF 2 * rem >= d THEN 2 * rem - d ELSE 2 * rem, d, k - 1,
                    IF 2 * rem >= d THEN 1 ELSE 0)

\* audioBuffer.duration, line 477: the double nearest length / sampleRate,
\* for a duration of a second or more.  With E the exponent of the quotient,
\* 52 - E bits follow the binary point; the quotient is cut there and
\* rounded to nearest, a tie to the even significand.  below is how far the
\* double lies below the quotient, in units of 2^-fraction / sampleRate (0
\* when the double is the quotient or lies above it).
Duration(buffer) ==
    LET whole == buffer.length \div buffer.sampleRate
        exponent == Log2Floor(whole)
        fraction == SignificandBits - 1 - exponent
        cut == DivideBits(buffer.length % buffer.sampleRate, buffer.sampleRate,
                          fraction, whole % 2)
        down == \/ 2 * cut[1] < buffer.sampleRate
                \/ 2 * cut[1] = buffer.sampleRate /\ cut[2] = 0
    IN  [exponent |-> exponent, below |-> IF down THEN cut[1] ELSE 0]

\* Math.ceil(totalDuration / CHUNK_DURATION_SECONDS), line 478: the double
\* is within 2^-46 of the quotient, too near to move the ceiling
NumFrameChunks(buffer) ==
    (buffer.length + CHUNK_DURATION_SECONDS * buffer.sampleRate - 1)
        \div (CHUNK_DURATION_SECONDS * buffer.sampleRate)

\* Math.floor(offset * audioBuffer.sampleRate), line 491: a product of two
\* integers, exact
FrameOffset(buffer, i) == ChunkOffset(i) * buffer.sampleRate

\* Math.floor(chunkDuration * audioBuffer.sampleRate), lines 489 and 492.
\* totalDuration - offset is exact (offset is a whole number below the
\* duration).  When it is 55 or more the product is 55 * sampleRate.
\* Otherwise the product is, before rounding, the number L of frames left
\* less below / 2^fraction; it is rounded to a double and the floor taken:
\* L - 1 when that is more than half the distance 2^(p - 53) between the
\* doubles just below L, where 2^(p-1) < L <= 2^p, and L when not.
FrameCount(buffer, i) ==
    LET left == buffer.length - FrameOffset(buffer, i)
        totalDuration == Duration(buffer)
        k == Log2Ceil(left) - totalDuration.exponent - 2
    IN  IF left >= CHUNK_DURATION_SECONDS * buffer.sampleRate
          THEN CHUNK_DURATION_SECONDS * buffer.sampleRate
        ELSE IF (IF k >= 0 THEN totalDuration.below > Pow2(k)
                 ELSE totalDuration.below >= 1)
          THEN left - 1
        ELSE left

\* String.prototype.trim(): the white space of the documents parsed here
WhiteSpace == {" ", "\n", "\r"}

SetMin(S) == CHOOSE x \in S : \A y \in S : x <= y
SetMax(S) == CHOOSE x \in S : \A y \in S : x >= y

StrTrim(str) ==
    LET black == { x \in 1..Len(str) : str[x] \notin WhiteSpace }
    IN  IF black = {} THEN << >> ELSE SubSeq(str, SetMin(black), SetMax(black))

\* the characters of str at the positions of the set kept, in order
Keep(str, kept) ==
    [k \in 1..Cardinality(kept) |->
        str[CHOOSE x \in kept : Cardinality({ y \in kept : y <= x }) = k]]

\* .replace(/\r\n/g, '\n'): every carriage return that a line feed follows
\* is dropped
ReplaceCrLf(str) ==
    Keep(str, { x \in 1..Len(str) :
                  ~ (str[x] = "\r" /\ x < Len(str) /\ str[x + 1] = "\n") })

\* .split(/\n\n+/) of a string that neither starts nor ends with a line
\* feed: a piece starts at the first character and after every run of two
\* or more line feeds, and ends at the last character before the next run
SplitBlocks(str) ==
    LET TwoLineFeeds(x) == x + 1 <= Len(str) /\ str[x] = "\n" /\ str[x + 1] = "\n"
        starts == { x \in 1..Len(str) :
                      /\ str[x] # "\n"
                      /\ x = 1 \/ (x > 2 /\ TwoLineFeeds(x - 2)) }
        EndOf(x) == SetMin({ e \in x..Len(str) : e = Len(str) \/ TwoLineFeeds(e + 1) })
    IN  IF str = << >> THEN << << >> >>
        ELSE [k \in 1..Cardinality(starts) |->
                 LET x == CHOOSE z \in starts : Cardinality({ y \in starts : y <= z }) = k
                 IN  SubSeq(str, x, EndOf(x))]

\* .split(sep) with a one-character separator
RECURSIVE StrSplit(_, _)
StrSplit(str, sep) ==
    IF str = << >> THEN << << >> >>
    ELSE LET rest == StrSplit(Tail(str), sep)
         IN  IF Head(str) = sep THEN << << >> >> \o rest
             ELSE << << Head(str) >> \o Head(rest) >> \o Tail(rest)

\* .join(sep)
RECURSIVE StrJoin(_, _)
StrJoin(strs, sep) ==
    IF strs = << >> THEN << >>
    ELSE IF Len(strs) = 1 THEN strs[1]
    ELSE strs[1] \o sep \o StrJoin(Tail(strs), sep)

\* /^\d+$/.test(str)
IsDigits(str) ==
    /\ str # << >>
    /\ \A x \in 1..Len(str) : \E d \in 1..10 : DigitChars[d] = str[x]

\* parseInt(str, 10) of a string of digits
RECURSIVE ParseInt(_)
ParseInt(str) ==
    IF str = << >> THEN 0
    ELSE 10 * ParseInt(SubSeq(str, 1, Len(str) - 1))
           + (CHOOSE d \in 0..9 : DigitChars[d + 1] = str[Len(str)])

\* String.prototype.includes(pattern)
Includes(str, pattern) ==
    \E x \in 1..(Len(str) - Len(pattern) + 1) :
        SubSeq(str, x, x + Len(pattern) - 1) = pattern

\* String.prototype.replace(c, r) with a string pattern of one character:
\* the first occurrence is replaced
RECURSIVE ReplaceFirst(_, _, _)
ReplaceFirst(str, c, r) ==
    IF str = << >> THEN str
    ELSE IF Head(str) = c THEN << r >> \o Tail(str)
    ELSE << Head(str) >> \o ReplaceFirst(Tail(str), c, r)

\* the label of a block without an index line that counts from 0
GeneratedIndexFromZero(segs) == Len(segs)

\* line 758: index = segments.length + 1
GeneratedIndex(segs) == Len(segs) + 1

\* the tail of the loop body of parseSrt for a block whose index is known
\* (lines 760-774)
ParseTimingAndText(segs, lines, index, lineIndex) ==
    IF Len(lines) > lineIndex /\ Includes(lines[lineIndex + 1], << "-", "-", ">" >>)
    THEN LET timing == ReplaceFirst(StrTrim(lines[lineIndex + 1]), ".", ",")
             text == StrTrim(StrJoin(SubSeq(lines, lineIndex + 2, Len(lines)), << "\n" >>))
         IN  IF text # << >>
             THEN Append(segs, [index |-> index, timing |-> timing, text |-> text])
             ELSE segs
    ELSE segs

\* one pass of the loop of parseSrt (lines 740-775)
ParseBlock(segs, block) ==
    LET lines == StrSplit(block, "\n")
    IN  IF Len(lines) < 2 THEN segs
        ELSE IF IsDigits(StrTrim(lines[1]))
             THEN ParseTimingAndText(segs, lines, ParseInt(StrTrim(lines[1])), 1)
             ELSE ParseTimingAndText(segs, lines, GeneratedIndex(segs), 0)

RECURSIVE ParseBlocks(_, _)
ParseBlocks(segs, blocks) ==
    IF blocks = << >> THEN segs
    ELSE ParseBlocks(ParseBlock(segs, Head(blocks)), Tail(blocks))

IsNotBlank(b) == StrTrim(b) # << >>

\* parseSrt, lines 734-777
ParseSrt(content) ==
    ParseBlocks(<< >>, SelectSeq(SplitBlocks(ReplaceCrLf(StrTrim(content))), IsNotBlank))

\* reconstructSrt, lines 779-784, on strings: for every record the block
\* `${index}\n${timing}\n${translatedText}\n\n`, where translatedText is
\* translatedTexts[i] || segment.text
RECURSIVE ReconstructSrtFrom(_, _, _)
ReconstructSrtFrom(segs, translatedTexts, i) ==
    IF i > Len(segs) THEN << >>
    ELSE LET translatedText ==
                 IF i <= Len(translatedTexts) /\ translatedTexts[i] # << >>
                   THEN translatedTexts[i] ELSE segs[i].text
         IN  NumberToString(segs[i].index) \o << "\n" >> \o segs[i].timing \o << "\n" >>
               \o translatedText \o << "\n", "\n" >>
               \o ReconstructSrtFrom(segs, translatedTexts, i + 1)

ReconstructSrtContent(segs, translatedTexts) == ReconstructSrtFrom(segs, translatedTexts, 1)

\* ------------------------------------------------------------------ Init

Init ==
    /\ status = "IDLE"
    /\ error = NULL
    /\ segments = << >>
    /\ progress = Whole(0)
    /\ progressLabel = ""
    /\ isTranscriptionCancelledRef = FALSE
    /\ jobs = [j \in JobSlots |-> [pc |-> "unused", duration |-> 0, i |-> 0]]
    /\ lastOp = "none"
    /\ cancelledAt = [j \in JobSlots |-> NotCancelled]
    /\ reqs = [j \in JobSlots |-> << >>]
    /\ currentSegment = EmptySegment
    /\ currentSegmentRef = EmptySegment
    /\ recordingStartTimeRef = 0
    /\ now = Epoch
    /\ recPc = "off"
    /\ stops = [s \in StopIds |-> "unused"]
    /\ streamRef = NULL
    /\ scriptProcessorRef = NULL
    /\ audioContextRef = NULL
    /\ sessionPromiseRef = NULL
    /\ sessionOpen = FALSE
    /\ partials = 0
    /\ turns = 0
    /\ words = {}
    /\ heardAtStop = {}
    /\ turnPartial = EmptySegment
    /\ turnSegments = << >>
    /\ boundaryAt = NoTime
    /\ firstPartialAt = NoTime
    /\ srtFileName = NoFile
    /\ srtSegments = << >>
    /\ translatedSrtContent = NoContent
    /\ srtStatus = "idle"
    /\ srtError = NoError
    /\ srtProgress = Whole(0)
    /\ srtProgressLabel = [text |-> "", i |-> 0, n |-> 0]
    /\ reads = {}
    /\ srtJobs = [j \in SrtJobSlots |-> SrtUnused]
    /\ srtLastOp = [op |-> "none", j |-> 0]
    /\ translatedSegments = << >>
    /\ trJobs = [t \in TrJobIds |-> TrUnused]
    /\ planTotal = 0
    /\ plan = << >>
    /\ formatMs = NoTime
    /\ formatted = << >>
    /\ wavBuffer = NoBuffer
    /\ wavBytes = << >>
    /\ srtContent = NoDoc
    /\ parsedSrt = << >>
    /\ reparsedSrt = << >>
    /\ audioBuffer = NoBuffer
    /\ chunkBuffers = << >>
    /\ inputData = << >>
    /\ int16 = << >>
    /\ ttsStatus = "idle"

\* ------------------------------------------------------ file transcription

\* resetScribeState, lines 236-248.  The last assignment clears the
\* cancellation flag.
ResetScribeState ==
    /\ status' = "IDLE"
    /\ segments' = << >>
    /\ translatedSegments' = << >>
    /\ currentSegment' = EmptySegment
    /\ error' = NULL
    /\ recordingStartTimeRef' = 0
    /\ progress' = Whole(0)
    /\ progressLabel' = ""
    /\ isTranscriptionCancelledRef' = FALSE

\* An invocation that has returned: its locals are gone.
Returned == [pc |-> "done", duration |-> 0, i |-> 0]

\* The number of requests jobs 1..m have issued; a run issues at most
\* MaxRequests.
RECURSIVE RequestsIssued(_)
RequestsIssued(m) == IF m = 0 THEN 0 ELSE Len(reqs[m]) + RequestsIssued(m - 1)

Active(j) == jobs[j].pc \in {"reading", "decoding", "encoding", "awaiting", "timer"}

\* (i / numChunks) * 100, kept exact as a reduced fraction.
Percent(i, numChunks) ==
    << (i * 100) \div GCD(i * 100, numChunks), numChunks \div GCD(i * 100, numChunks) >>

\* processAndTranscribeFile, lines 536-544: what follows the last chunk (or a
\* break out of the loop), with segs the segment list at that point.
FinishJob(j, segs) ==
    IF isTranscriptionCancelledRef
    THEN /\ ResetScribeState
         /\ jobs' = [jobs EXCEPT ![j] = Returned]
    ELSE \* completeProgress(); setTimeout(..., 500)
         /\ progress' = Whole(100)
         /\ segments' = segs
         /\ jobs' = [jobs EXCEPT ![j].pc = "timer"]
         /\ UNCHANGED << status, error, progressLabel, currentSegment,
                         recordingStartTimeRef, isTranscriptionCancelledRef,
                         translatedSegments >>

\* chunkAndTranscribeAudio, lines 480-508: the head of iteration i, up to the
\* await of wavBlob.arrayBuffer().
LoopHead(j, i, segs) ==
    IF i >= NumChunks(jobs[j].duration) \/ isTranscriptionCancelledRef
    THEN FinishJob(j, segs)
    ELSE /\ progressLabel' = "Transcribing chunk " \o ToString(i + 1) \o " of "
                              \o ToString(NumChunks(jobs[j].duration)) \o "..."
         /\ progress' = Percent(i, NumChunks(jobs[j].duration))
         /\ segments' = segs
         /\ jobs' = [jobs EXCEPT ![j].pc = "encoding", ![j].i = i]
         /\ UNCHANGED << status, error, currentSegment, recordingStartTimeRef,
                         isTranscriptionCancelledRef, translatedSegments >>

\* handleFileChange, lines 559-579, with a file that is not audio or is too
\* large.
HandleFileChangeInvalid(why) ==
    /\ status \notin {"PROCESSING", "TRANSLATING", "RECORDING"}
    /\ error' = why
    /\ status' = "ERROR"
    /\ lastOp' = "upload"
    /\ UNCHANGED << segments, progress, progressLabel, isTranscriptionCancelledRef,
                    jobs, cancelledAt, reqs, scribeVars, liveVars, liveHistory, srtVars,
                    translateVars, planVars, pureVars, ttsStatus >>

\* handleFileChange with a valid file, and processAndTranscribeFile up to
\* its first await (lines 514-523).  The upload button is rendered when the
\* status is not RECORDING and enabled when it is not PROCESSING or
\* TRANSLATING (lines 974-990).
HandleFileChange(j, d) ==
    /\ status \notin {"PROCESSING", "TRANSLATING", "RECORDING"}
    /\ jobs[j].pc = "unused"
    /\ \A k \in JobIds : k < j => jobs[k].pc # "unused"
    /\ status' = "PROCESSING"
    /\ segments' = << >>
    /\ translatedSegments' = << >>
    /\ currentSegment' = EmptySegment
    /\ error' = NULL
    /\ recordingStartTimeRef' = 0
    /\ progress' = Whole(0)
    /\ progressLabel' = "Preparing audio..."
    /\ isTranscriptionCancelledRef' = FALSE
    /\ jobs' = [jobs EXCEPT ![j] = [pc |-> "reading", duration |-> d, i |-> 0]]
    /\ lastOp' = "upload"
    /\ UNCHANGED << cancelledAt, reqs, currentSegmentRef, liveVars, liveHistory, srtVars,
                    trJobs, planVars, pureVars, ttsStatus >>

\* file.arrayBuffer() resolves; line 525.
FileRead(j) ==
    /\ jobs[j].pc = "reading"
    /\ jobs' = IF isTranscriptionCancelledRef
               THEN [jobs EXCEPT ![j] = Returned]
               ELSE [jobs EXCEPT ![j].pc = "decoding"]
    /\ UNCHANGED << status, error, segments, progress, progressLabel,
                    isTranscriptionCancelledRef, lastOp, cancelledAt, reqs, scribeVars, liveVars, liveHistory, srtVars,
                    translateVars, planVars, pureVars, ttsStatus >>

\* The catch block of processAndTranscribeFile, lines 546-556.
CatchError(j) ==
    IF isTranscriptionCancelledRef
    THEN /\ ResetScribeState
         /\ jobs' = [jobs EXCEPT ![j] = Returned]
    ELSE /\ error' = "Failed to process the audio file"
         /\ status' = "ERROR"
         \* failProgress()
         /\ progress' = Whole(0)
         /\ progressLabel' = ""
         /\ jobs' = [jobs EXCEPT ![j] = Returned]
         /\ UNCHANGED << segments, currentSegment, recordingStartTimeRef,
                         isTranscriptionCancelledRef, translatedSegments >>

\* decodeAudioData rejects (line 527).
DecodeFail(j) ==
    /\ jobs[j].pc = "decoding"
    /\ CatchError(j)
    /\ UNCHANGED << lastOp, cancelledAt, reqs, currentSegmentRef, liveVars, liveHistory, srtVars,
                    trJobs, planVars, pureVars, ttsStatus >>

\* transcribeAudioChunk up to its await (lines 433-462), called for chunk c
\* of job j with the given offset: nothing when the flag is set, else the
\* request goes out.
IssueRequest(j, c, offset, whole) ==
    /\ RequestsIssued(MaxJobs + 1) < MaxRequests
    /\ reqs' = [reqs EXCEPT ![j] = Append(@, [chunk |-> c, offset |-> offset, whole |-> whole,
                                              answered |-> FALSE])]

\* decodeAudioData resolves; lines 529-534 up to the next await.
DecodeOk(j) ==
    /\ jobs[j].pc = "decoding"
    /\ IF IsSingleUnit(jobs[j].duration)
       THEN IF isTranscriptionCancelledRef
            THEN FinishJob(j, segments) /\ UNCHANGED reqs
            ELSE /\ progressLabel' = "Transcribing audio..."
                 /\ IssueRequest(j, 0, 0, TRUE)
                 /\ jobs' = [jobs EXCEPT ![j].pc = "awaiting", ![j].i = 0]
                 /\ UNCHANGED << status, error, segments, progress, currentSegment,
                                 recordingStartTimeRef, isTranscriptionCancelledRef,
                                 translatedSegments >>
       ELSE LoopHead(j, 0, segments) /\ UNCHANGED reqs
    /\ UNCHANGED << lastOp, cancelledAt, currentSegmentRef, liveVars, liveHistory, srtVars,
                    trJobs, planVars, pureVars, ttsStatus >>

\* A loop that sends the chunk and goes on to the next without waiting for
\* the answer.
EncodeDoneNoAwait(j) ==
    /\ jobs[j].pc = "encoding"
    /\ IF isTranscriptionCancelledRef
       THEN LoopHead(j, jobs[j].i + 1, segments) /\ UNCHANGED reqs
       ELSE /\ IssueRequest(j, jobs[j].i, ChunkOffset(jobs[j].i), FALSE)
            /\ LoopHead(j, jobs[j].i + 1, segments)
    /\ UNCHANGED << lastOp, cancelledAt, currentSegmentRef, liveVars, liveHistory, srtVars,
                    trJobs, planVars, pureVars, ttsStatus >>

\* wavBlob.arrayBuffer() resolves (line 508) and transcribeAudioChunk is
\* called with the chunk's offset (line 510).
EncodeDone(j) ==
    /\ jobs[j].pc = "encoding"
    /\ IF isTranscriptionCancelledRef
       THEN LoopHead(j, jobs[j].i + 1, segments) /\ UNCHANGED reqs
       ELSE /\ IssueRequest(j, jobs[j].i, ChunkOffset(jobs[j].i), FALSE)
            /\ jobs' = [jobs EXCEPT ![j].pc = "awaiting"]
            /\ UNCHANGED << status, error, segments, progress, progressLabel,
                            currentSegment, recordingStartTimeRef,
                            isTranscriptionCancelledRef, translatedSegments >>
    /\ UNCHANGED << lastOp, cancelledAt, currentSegmentRef, liveVars, liveHistory, srtVars,
                    trJobs, planVars, pureVars, ttsStatus >>

\* The await of generateContent in transcribeAudioChunk is over (line 455):
\* the pending request of job j has been answered.
Answered(j) == reqs' = [reqs EXCEPT ![j][Len(reqs[j])].answered = TRUE]

\* The offset the pending request of job j was issued with.
PendingOffset(j) == reqs[j][Len(reqs[j])].offset

\* What follows a return of transcribeAudioChunk: the end of the single-unit
\* path, or the next iteration of the loop.
AfterChunk(j, segs) ==
    IF IsSingleUnit(jobs[j].duration)
    THEN FinishJob(j, segs)
    ELSE LoopHead(j, jobs[j].i + 1, segs)

\* generateContent resolves with a text that JSON.parse turns into the
\* array parsedSegments; lines 464-473.
TranscribeResolveWith(j, parsedSegments) ==
    /\ jobs[j].pc = "awaiting"
    /\ IF isTranscriptionCancelledRef
       THEN AfterChunk(j, segments)
       ELSE AfterChunk(j, AppendSegments(segments,
                NewSegments(parsedSegments, PendingOffset(j))))
    /\ Answered(j)
    /\ UNCHANGED << lastOp, cancelledAt, currentSegmentRef, liveVars, liveHistory, srtVars,
                    trJobs, planVars, pureVars, ttsStatus >>

\* The response is an array of n entries of the shape the prompt asks for.
TranscribeResolve(j, n) == TranscribeResolveWith(j, Response(j, jobs[j].i, n))

\* generateContent rejects, or JSON.parse throws on its text (lines 455-466).
TranscribeFail(j) ==
    /\ jobs[j].pc = "awaiting"
    /\ CatchError(j)
    /\ Answered(j)
    /\ UNCHANGED << lastOp, cancelledAt, currentSegmentRef, liveVars, liveHistory, srtVars,
                    trJobs, planVars, pureVars, ttsStatus >>

\* The 500 ms timer of line 542 fires.
TimerFire(j) ==
    /\ jobs[j].pc = "timer"
    /\ status' = "FINISHED"
    /\ jobs' = [jobs EXCEPT ![j] = Returned]
    /\ UNCHANGED << error, segments, progress, progressLabel,
                    isTranscriptionCancelledRef, lastOp, cancelledAt, reqs, scribeVars, liveVars, liveHistory, srtVars,
                    translateVars, planVars, pureVars, ttsStatus >>

\* The chunk job j is at: -1 before the first request is prepared, and the
\* last chunk once the loop is over.
ChunkAt(j) ==
    IF jobs[j].pc \in {"reading", "decoding"} THEN 0 - 1 ELSE jobs[j].i

\* handleCancelTranscription, lines 581-584: the flag is set and
\* resetScribeState is called, which clears it again.  The Cancel button is
\* rendered while the status is PROCESSING (line 1014).
HandleCancelTranscription ==
    /\ status = "PROCESSING"
    /\ ResetScribeState
    /\ lastOp' = "cancel"
    /\ cancelledAt' = [j \in JobSlots |->
            IF Active(j) /\ cancelledAt[j] = NotCancelled
            THEN [chunk |-> ChunkAt(j), pc |-> jobs[j].pc]
            ELSE cancelledAt[j]]
    /\ UNCHANGED << jobs, reqs, currentSegmentRef, liveVars, liveHistory, srtVars,
                    trJobs, planVars, pureVars, ttsStatus >>

\* The Start Over button (line 1107), rendered when the status is FINISHED
\* and there are segments (line 1072).
StartOver ==
    /\ status = "FINISHED"
    /\ Len(segments) > 0
    /\ ResetScribeState
    /\ lastOp' = "startOver"
    /\ UNCHANGED << jobs, cancelledAt, reqs, currentSegmentRef, liveVars, liveHistory, srtVars,
                    trJobs, planVars, pureVars, ttsStatus >>

FileNext ==
    \/ \E j \in JobIds, d \in Durations : HandleFileChange(j, d)
    \/ \E why \in {"Invalid file type", "File is too large"} : HandleFileChangeInvalid(why)
    \/ \E j \in JobIds : FileRead(j)
    \/ \E j \in JobIds : DecodeOk(j)
    \/ \E j \in JobIds : DecodeFail(j)
    \/ \E j \in JobIds : EncodeDone(j)
    \/ \E j \in JobIds, n \in 0..MaxResp : TranscribeResolve(j, n)
    \/ \E j \in JobIds : TranscribeFail(j)
    \/ \E j \in JobIds : TimerFire(j)
    \/ HandleCancelTranscription
    \/ StartOver

Spec == Init /\ [][FileNext]_vars

\* The file pipeline with a file uploaded again after a cancellation, a
\* failure or the end of the job before it.
JobsNext ==
    \/ \E j \in JobSlots, d \in Durations : HandleFileChange(j, d)
    \/ \E j \in JobSlots : FileRead(j)
    \/ \E j \in JobSlots : DecodeOk(j)
    \/ \E j \in JobSlots : DecodeFail(j)
    \/ \E j \in JobSlots : EncodeDone(j)
    \/ \E j \in JobSlots, n \in 0..MaxResp : TranscribeResolve(j, n)
    \/ \E j \in JobSlots : TranscribeFail(j)
    \/ \E j \in JobSlots : TimerFire(j)
    \/ HandleCancelTranscription
    \/ StartOver

SpecJobs == Init /\ [][JobsNext]_vars

\* ------------------------------------------------------------ live capture

\* A text is a sequence of characters: the word of partial event n is one
\* character, the numeral of n, and " " is white space.
Blank == " "

Word(n) == ToString(n)

\* String.prototype.trim: leading and trailing white space removed.
RECURSIVE TrimLeft(_)
TrimLeft(t) == IF t # << >> /\ Head(t) = Blank THEN TrimLeft(Tail(t)) ELSE t

RECURSIVE TrimRight(_)
TrimRight(t) ==
    IF t # << >> /\ t[Len(t)] = Blank THEN TrimRight(SubSeq(t, 1, Len(t) - 1)) ELSE t

Trim(t) == TrimRight(TrimLeft(t))

\* The texts partial event n may carry: its word, white space, or its word
\* followed by white space.
PartialTexts(n) == { << Word(n) >>, << Blank >>, << Word(n), Blank >> }

\* The updater of setCurrentSegment, lines 330-336.
AppendPartial(prev, text) ==
    [text      |-> prev.text \o text,
     startTime |-> IF prev.text = << >> THEN now - recordingStartTimeRef
                   ELSE prev.startTime]

\* The test of lines 299 and 339 on the value the ref holds.
HasPending(seg) == Trim(seg.text) # << >> /\ seg.startTime # NoTime

\* The segment built from the ref, lines 300-304 and 340-344.
FinalSegment(seg) ==
    [text      |-> Trim(seg.text),
     startTime |-> seg.startTime,
     endTime   |-> now - recordingStartTimeRef]

\* Date.now() advances.
Tick ==
    /\ now < Epoch + MaxTime
    /\ now' = now + 1
    /\ UNCHANGED << fileVars, scribeVars, recPc, stops, streamRef, scriptProcessorRef,
                    audioContextRef, sessionPromiseRef, sessionOpen, liveHistory, srtVars,
                    translateVars, planVars, pureVars, ttsStatus >>

\* The component re-renders: line 229 copies the state into the ref.
Render ==
    /\ currentSegmentRef # currentSegment
    /\ currentSegmentRef' = currentSegment
    /\ UNCHANGED << fileVars, currentSegment, recordingStartTimeRef, liveVars,
                    liveHistory, srtVars,
                    translateVars, planVars, pureVars, ttsStatus >>

\* handleStartRecording up to the await of getUserMedia, lines 313-320.  The
\* Record button is rendered when the status is not RECORDING and enabled
\* when it is not PROCESSING or TRANSLATING (lines 974-978).
HandleStartRecording ==
    /\ status \notin {"PROCESSING", "TRANSLATING", "RECORDING"}
    /\ recPc = "off"
    /\ sessionPromiseRef = NULL
    /\ partials = 0
    /\ segments' = << >>
    /\ translatedSegments' = << >>
    /\ currentSegment' = EmptySegment
    /\ error' = NULL
    /\ progress' = Whole(0)
    /\ progressLabel' = ""
    /\ isTranscriptionCancelledRef' = FALSE
    /\ status' = "RECORDING"
    /\ recordingStartTimeRef' = now
    /\ recPc' = "media"
    /\ lastOp' = "record"
    /\ turnPartial' = EmptySegment
    /\ turnSegments' = << >>
    /\ UNCHANGED << jobs, cancelledAt, reqs, currentSegmentRef, now, stops, streamRef,
                    scriptProcessorRef, audioContextRef, sessionPromiseRef, sessionOpen,
                    partials, turns, words, heardAtStop, boundaryAt, firstPartialAt,
                    srtVars, trJobs, planVars, pureVars, ttsStatus >>

\* getUserMedia rejects: the catch block, lines 390-400.
MediaDenied ==
    /\ recPc = "media"
    /\ error' = "Failed to start recording"
    /\ status' = "ERROR"
    /\ recPc' = "off"
    /\ UNCHANGED << segments, progress, progressLabel, isTranscriptionCancelledRef, jobs,
                    lastOp, cancelledAt, reqs, scribeVars, now, stops, streamRef,
                    scriptProcessorRef, audioContextRef, sessionPromiseRef, sessionOpen,
                    liveHistory, srtVars,
                    translateVars, planVars, pureVars, ttsStatus >>

\* getUserMedia resolves: the session is connected and the audio graph is
\* built, lines 321-388.
MediaGranted ==
    /\ recPc = "media"
    /\ streamRef' = "stream"
    /\ sessionPromiseRef' = "session"
    /\ sessionOpen' = TRUE
    /\ audioContextRef' = "running"
    /\ scriptProcessorRef' = "processor"
    /\ recPc' = "on"
    /\ UNCHANGED << fileVars, scribeVars, now, stops, liveHistory, srtVars,
                    translateVars, planVars, pureVars, ttsStatus >>

\* onmessage, lines 327-349, for a message that carries a partial text (text
\* is not NoText), a turn-complete signal, or both.  The partial text goes
\* through the updater into the state; the turn-complete branch reads the
\* ref, which holds the state as of the last render.
OnMessage(text, turnComplete) ==
    /\ sessionOpen
    /\ text # NoText \/ turnComplete
    /\ text # NoText => partials < MaxPartials /\ text \in PartialTexts(partials + 1)
    /\ turnComplete => turns < MaxTurns
    /\ LET afterText == IF text # NoText THEN AppendPartial(currentSegment, text)
                        ELSE currentSegment
           finalize  == turnComplete /\ HasPending(currentSegmentRef)
           refAfter  == IF text # NoText THEN AppendPartial(turnPartial, text)
                        ELSE turnPartial
       IN /\ segments' = IF finalize
                         THEN Append(segments, FinalSegment(currentSegmentRef))
                         ELSE segments
          /\ currentSegment' = IF finalize THEN EmptySegment ELSE afterText
          /\ turnSegments' = IF turnComplete /\ Trim(refAfter.text) # << >>
                             THEN Append(turnSegments, FinalSegment(refAfter))
                             ELSE turnSegments
          /\ turnPartial' = IF turnComplete /\ Trim(refAfter.text) # << >>
                            THEN EmptySegment ELSE refAfter
    /\ partials' = IF text # NoText THEN partials + 1 ELSE partials
    /\ turns' = IF turnComplete THEN turns + 1 ELSE turns
    /\ words' = IF text # NoText /\ text # << Blank >> THEN words \cup {Word(partials + 1)}
                ELSE words
    /\ boundaryAt' = IF turnComplete THEN now - recordingStartTimeRef ELSE boundaryAt
    /\ firstPartialAt' = IF turnComplete THEN NoTime
                         ELSE IF firstPartialAt = NoTime THEN now - recordingStartTimeRef
                         ELSE firstPartialAt
    /\ UNCHANGED << status, error, progress, progressLabel, isTranscriptionCancelledRef,
                    jobs, lastOp, cancelledAt, reqs, recordingStartTimeRef,
                    currentSegmentRef, liveVars, heardAtStop, srtVars,
                    translateVars, planVars, pureVars, ttsStatus >>

\* cleanupLiveRecording up to its first await, lines 254-266, and, when
\* there is nothing to wait for, to its end and the setStatus(FINISHED) of
\* line 310.
StopAndCleanup(s) ==
    /\ streamRef' = NULL
    /\ scriptProcessorRef' = NULL
    /\ IF audioContextRef = "running"
       THEN /\ stops' = [stops EXCEPT ![s] = "closing"]
            /\ status' = "PROCESSING"
            /\ UNCHANGED << audioContextRef, sessionPromiseRef, sessionOpen >>
       ELSE /\ stops' = [stops EXCEPT ![s] = "done"]
            /\ status' = "FINISHED"
            /\ sessionPromiseRef' = NULL
            /\ sessionOpen' = FALSE
            /\ UNCHANGED audioContextRef

\* A stop that drops whatever is pending.
StopBeginNoFinalize(s) ==
    /\ stops[s] = "unused"
    /\ \A k \in StopIds : k < s => stops[k] # "unused"
    /\ UNCHANGED << segments, currentSegment >>
    /\ StopAndCleanup(s)

\* handleStopRecording up to its await, lines 295-309.
StopBegin(s) ==
    /\ stops[s] = "unused"
    /\ \A k \in StopIds : k < s => stops[k] # "unused"
    /\ IF HasPending(currentSegmentRef)
       THEN /\ segments' = Append(segments, FinalSegment(currentSegmentRef))
            /\ currentSegment' = EmptySegment
       ELSE UNCHANGED << segments, currentSegment >>
    /\ StopAndCleanup(s)

\* The Stop button, rendered while the status is RECORDING (lines 974, 1005).
HandleStopRecording(s) ==
    /\ status = "RECORDING"
    /\ StopBegin(s)
    /\ lastOp' = "stop"
    /\ heardAtStop' = words
    /\ UNCHANGED << error, progress, progressLabel, isTranscriptionCancelledRef, jobs,
                    cancelledAt, reqs, recordingStartTimeRef, currentSegmentRef, now,
                    recPc, partials, turns, words, turnPartial, turnSegments,
                    boundaryAt, firstPartialAt, srtVars,
                    translateVars, planVars, pureVars, ttsStatus >>

\* onerror, lines 350-354: the error is set and handleStopRecording called.
OnSessionError(s) ==
    /\ sessionOpen
    /\ error' = "A real-time connection error occurred"
    /\ StopBegin(s)
    /\ lastOp' = "sessionError"
    /\ UNCHANGED << progress, progressLabel, isTranscriptionCancelledRef, jobs,
                    cancelledAt, reqs, recordingStartTimeRef, currentSegmentRef, now,
                    recPc, liveHistory, srtVars,
                    translateVars, planVars, pureVars, ttsStatus >>

\* audioContext.close() resolves: the rest of cleanupLiveRecording, lines
\* 265-276, and line 310.
StopFinish(s) ==
    /\ stops[s] = "closing"
    /\ stops' = [stops EXCEPT ![s] = "done"]
    /\ audioContextRef' = NULL
    /\ sessionPromiseRef' = NULL
    /\ sessionOpen' = FALSE
    /\ status' = "FINISHED"
    /\ UNCHANGED << error, segments, progress, progressLabel,
                    isTranscriptionCancelledRef, jobs, lastOp, cancelledAt, reqs,
                    scribeVars, now, recPc, streamRef, scriptProcessorRef, liveHistory,
                    srtVars,
                    translateVars, planVars, pureVars, ttsStatus >>

LiveNext ==
    \/ Tick
    \/ Render
    \/ HandleStartRecording
    \/ MediaDenied
    \/ MediaGranted
    \/ \E text \in PartialTexts(partials + 1) \cup {NoText}, turnComplete \in BOOLEAN :
          OnMessage(text, turnComplete)
    \/ \E s \in StopIds : HandleStopRecording(s)
    \/ \E s \in StopIds : OnSessionError(s)
    \/ \E s \in StopIds : StopFinish(s)
    \/ HandleCancelTranscription
    \/ StartOver

SpecLive == Init /\ [][LiveNext]_vars

\* getUserMedia resolves, the stream is stored (line 321), the session is
\* connected (line 323) and the audio context is built (lines 377-378), and
\* then a statement of lines 379-388 throws (createMediaStreamSource rejects
\* a stream whose sample rate is not the context's, say): the catch block of
\* lines 390-400 sets the error and the status and releases nothing.
MediaGrantedThrow ==
    /\ recPc = "media"
    /\ streamRef' = "stream"
    /\ sessionPromiseRef' = "session"
    /\ sessionOpen' = TRUE
    /\ audioContextRef' = "running"
    /\ error' = "Failed to start recording"
    /\ status' = "ERROR"
    /\ recPc' = "off"
    /\ UNCHANGED << segments, progress, progressLabel, isTranscriptionCancelledRef, jobs,
                    lastOp, cancelledAt, reqs, scribeVars, now, stops, scriptProcessorRef,
                    liveHistory, srtVars, translateVars, planVars, pureVars, ttsStatus >>

\* Live capture with a start that can fail half way.
LiveFaultsNext ==
    \/ LiveNext
    \/ MediaGrantedThrow

SpecLiveFaults == Init /\ [][LiveFaultsNext]_vars

\* ====================================== responses outside the asked shape

\* A response whose entries carry the skewed spans.
SkewedResponse(j, c) ==
    [k \in 1..Len(SkewedSpans) |->
        [startTime |-> SkewedSpans[k][1],
         endTime   |-> SkewedSpans[k][2],
         text      |-> [job |-> j, chunk |-> c, k |-> k]]]

\* A response that is valid JSON, an array of one object, without the
\* startTime and endTime fields: s.startTime + timeOffsetSeconds is NaN.
TimelessResponse(j, c) ==
    << [startTime |-> NaN, endTime |-> NaN, text |-> [job |-> j, chunk |-> c, k |-> 1]] >>

\* The arrays JSON.parse(response.text) can yield besides those of Response.
OtherResponses(j) ==
    IF jobs[j].pc = "awaiting"
      THEN { SkewedResponse(j, jobs[j].i), TimelessResponse(j, jobs[j].i) }
      ELSE {}

\* File transcription with a capability that is not held to the shape the
\* prompt and the response schema ask for.
ResponsesNext ==
    \/ FileNext
    \/ \E j \in JobIds : \E parsedSegments \in OtherResponses(j) :
          TranscribeResolveWith(j, parsedSegments)

SpecResponses == Init /\ [][ResponsesNext]_vars

\* ========================================================= chunk planner

\* chunkAndTranscribeAudio is entered with a buffer of the given duration.
PlanStart(totalDuration) ==
    /\ planTotal = 0
    /\ planTotal' = totalDuration
    /\ plan' = << >>
    /\ UNCHANGED << fileVars, scribeVars, liveVars, liveHistory, srtVars, translateVars,
                    pureVars, ttsStatus >>

\* Pass i of the loop of chunkAndTranscribeAudio computes the offset and the
\* duration of chunk i (lines 488-489).
PlanChunk ==
    /\ planTotal > 0
    /\ Len(plan) < NumChunks(planTotal)
    /\ plan' = Append(plan, [offset |-> ChunkOffset(Len(plan)),
                             duration |-> ChunkDuration(planTotal, Len(plan))])
    /\ UNCHANGED << fileVars, scribeVars, liveVars, liveHistory, srtVars, translateVars,
                    planTotal, pureVars, ttsStatus >>

PlanNext ==
    \/ \E totalDuration \in PlanTotals : PlanStart(totalDuration)
    \/ PlanChunk

SpecPlan == Init /\ [][PlanNext]_vars

\* =================================================== segment translation

\* The translation of a text.
TranslatedText(text) == [translated |-> text]

\* The array the prompt asks for: every object of the input with its text
\* translated.
TranslatedArray(segs) ==
    [k \in 1..Len(segs) |-> [segs[k] EXCEPT !.text = TranslatedText(segs[k].text)]]

\* What response.text can be: JSON of the array asked for, of that array
\* without its last object, of that array with the first startTime moved by
\* a millisecond, a text that is not JSON, or no text at all.
TranslationTexts(segs) ==
    { [kind |-> "json", value |-> TranslatedArray(segs)],
      [kind |-> "json", value |-> SubSeq(TranslatedArray(segs), 1, Len(segs) - 1)],
      [kind |-> "json", value |->
          [TranslatedArray(segs) EXCEPT ![1].startTime = @ + 1]],
      [kind |-> "garbage", value |-> << >>],
      NoResponse }

\* The Translate button (line 1087), enabled when the status is FINISHED and
\* there are segments (lines 926, 1088): handleTranslate up to its await.
HandleTranslate(t) ==
    /\ status = "FINISHED"
    /\ Len(segments) > 0
    /\ trJobs[t].pc = "unused"
    /\ \A k \in TrJobIds : k < t => trJobs[k].pc # "unused"
    /\ status' = "TRANSLATING"
    \* startProgressSimulation('Translating text...')
    /\ progress' = Whole(0)
    /\ progressLabel' = "Translating text..."
    /\ translatedSegments' = << >>
    /\ error' = NULL
    /\ trJobs' = [trJobs EXCEPT ![t] =
           [pc |-> "awaiting", segs |-> segments, text |-> NoResponse]]
    /\ lastOp' = "translate"
    /\ UNCHANGED << segments, isTranscriptionCancelledRef, jobs, cancelledAt, reqs,
                    scribeVars, liveVars, liveHistory, srtVars, planVars, pureVars, ttsStatus >>

\* generateContent resolves: completeProgress() and the 500 ms timer is set
\* (lines 626-627).  The text of the response is not looked at yet.
TranslateResolve(t, text) ==
    /\ trJobs[t].pc = "awaiting"
    /\ progress' = Whole(100)
    /\ trJobs' = [trJobs EXCEPT ![t].pc = "timer", ![t].text = text]
    /\ UNCHANGED << status, error, segments, progressLabel, isTranscriptionCancelledRef,
                    jobs, lastOp, cancelledAt, reqs, scribeVars, liveVars, liveHistory,
                    srtVars, translatedSegments, planVars, pureVars, ttsStatus >>

\* generateContent rejects: the catch block, lines 632-638.
TranslateReject(t) ==
    /\ trJobs[t].pc = "awaiting"
    /\ error' = "Failed to translate text"
    /\ status' = "ERROR"
    \* failProgress()
    /\ progress' = Whole(0)
    /\ progressLabel' = ""
    /\ trJobs' = [trJobs EXCEPT ![t].pc = "failed"]
    /\ lastOp' = "translated"
    /\ UNCHANGED << segments, isTranscriptionCancelledRef, jobs, cancelledAt, reqs,
                    scribeVars, liveVars, liveHistory, srtVars, translatedSegments, planVars, pureVars, ttsStatus >>

\* The timer of line 627 fires: JSON.parse(response.text) runs in the
\* callback, outside the try block of handleTranslate.  When it throws,
\* nothing catches it and the two setters after it are not reached.
TranslateTimerFire(t) ==
    /\ trJobs[t].pc = "timer"
    /\ IF trJobs[t].text.kind = "json"
         THEN /\ translatedSegments' = trJobs[t].text.value
              /\ status' = "FINISHED"
              /\ trJobs' = [trJobs EXCEPT ![t].pc = "done"]
         ELSE /\ trJobs' = [trJobs EXCEPT ![t].pc = "threw"]
              /\ UNCHANGED << translatedSegments, status >>
    /\ lastOp' = "translated"
    /\ UNCHANGED << error, segments, progress, progressLabel, isTranscriptionCancelledRef,
                    jobs, cancelledAt, reqs, scribeVars, liveVars, liveHistory, srtVars, planVars, pureVars, ttsStatus >>

\* The responses invocation t can get.
TranslationTextsFor(t) ==
    IF trJobs[t].pc = "awaiting" THEN TranslationTexts(trJobs[t].segs) ELSE {}

\* A response to a pending translation request arrives.
TranslateRespond ==
    \E t \in TrJobIds :
        \/ \E text \in TranslationTextsFor(t) : TranslateResolve(t, text)
        \/ TranslateReject(t)

TranslateTimer == \E t \in TrJobIds : TranslateTimerFire(t)

TranslateNext ==
    \/ FileNext
    \/ \E t \in TrJobIds : HandleTranslate(t)
    \/ TranslateRespond
    \/ TranslateTimer

SpecTranslate == Init /\ [][TranslateNext]_vars

\* The capability answers every request and every timer that is set fires.
SpecTranslateFair ==
    SpecTranslate /\ WF_vars(TranslateRespond) /\ WF_vars(TranslateTimer)

\* ================================================ listening to a translation

\* The Listen button (lines 1051-1055) is rendered whenever there is a
\* translation and enabled unless ttsStatus is 'loading': handlePlayTranslation
\* up to its await, lines 650-662.  While the audio plays the button stops it
\* (handleStopSpeaking).
HandlePlayTranslation ==
    /\ Len(translatedSegments) > 0
    /\ ttsStatus # "loading"
    /\ IF ttsStatus = "playing"
         THEN /\ ttsStatus' = "idle"
              /\ UNCHANGED error
         ELSE /\ ttsStatus' = "loading"
              /\ error' = NULL
    /\ UNCHANGED << status, segments, progress, progressLabel, isTranscriptionCancelledRef,
                    jobs, lastOp, cancelledAt, reqs, scribeVars, liveVars, liveHistory,
                    srtVars, translateVars, planVars, pureVars >>

\* The speech request resolves with audio and the playback starts, lines
\* 670-696.
PlayResolve ==
    /\ ttsStatus = "loading"
    /\ ttsStatus' = "playing"
    /\ UNCHANGED << fileVars, scribeVars, liveVars, liveHistory, srtVars, translateVars,
                    planVars, pureVars >>

\* The speech request fails or carries no audio: the catch block, lines
\* 698-703.
PlayReject ==
    /\ ttsStatus = "loading"
    /\ error' = "Failed to generate audio for translation"
    /\ ttsStatus' = "idle"
    /\ UNCHANGED << status, segments, progress, progressLabel, isTranscriptionCancelledRef,
                    jobs, lastOp, cancelledAt, reqs, scribeVars, liveVars, liveHistory,
                    srtVars, translateVars, planVars, pureVars >>

\* source.onended, lines 689-692
PlayEnded ==
    /\ ttsStatus = "playing"
    /\ ttsStatus' = "idle"
    /\ UNCHANGED << fileVars, scribeVars, liveVars, liveHistory, srtVars, translateVars,
                    planVars, pureVars >>

PlayNext ==
    \/ TranslateNext
    \/ HandlePlayTranslation
    \/ PlayResolve
    \/ PlayReject
    \/ PlayEnded

SpecPlay == Init /\ [][PlayNext]_vars

\* ================================================== subtitle translation

\* `Translating chunk ${i} of ${n}...`, 'Translation complete!' and ''.
SrtLabel(text, i, n) == [text |-> text, i |-> i, n |-> n]

\* The messages set by setSrtError; the mismatch names the batch, the count
\* sent and the count returned.
SrtErr(kind, chunk, expected, got) ==
    [kind |-> kind, chunk |-> chunk, expected |-> expected, got |-> got]

\* parseSrt of a file with n well-formed blocks: record p carries index p,
\* its timing line and its text.
ParsedDoc(n) == [p \in 1..n |-> [index |-> p, timing |-> p, text |-> SrtText(n, p, 0)]]

\* srtSegments.map(s => s.text)
TextsOf(segs) == [p \in 1..Len(segs) |-> segs[p].text]

\* Math.ceil(length / SRT_TRANSLATE_CHUNK_SIZE)
NumSrtChunks(n) == (n + SRT_TRANSLATE_CHUNK_SIZE - 1) \div SRT_TRANSLATE_CHUNK_SIZE

\* Array.prototype.slice(from, to), both counted from 0.
Slice(seq, from, to) == SubSeq(seq, from + 1, IF to < Len(seq) THEN to ELSE Len(seq))

\* A batch that stops one text early.
SrtChunkShort(texts, i) ==
    Slice(texts, i * SRT_TRANSLATE_CHUNK_SIZE,
          i * SRT_TRANSLATE_CHUNK_SIZE + SRT_TRANSLATE_CHUNK_SIZE - 1)

\* The batch of pass i of the loop.
SrtChunk(texts, i) ==
    Slice(texts, i * SRT_TRANSLATE_CHUNK_SIZE,
          i * SRT_TRANSLATE_CHUNK_SIZE + SRT_TRANSLATE_CHUNK_SIZE)

\* The translation of every text of a batch, in order.
Translated(chunk) == [k \in 1..Len(chunk) |-> SrtText(chunk[k].doc, chunk[k].pos, 1)]

\* What JSON.parse(response.text) can be for a batch: the translations, the
\* translations with an empty first string, one string fewer, one string more.
SrtResponses(chunk) ==
    { Translated(chunk),
      [Translated(chunk) EXCEPT ![1] = EmptyString],
      Tail(Translated(chunk)),
      Append(Translated(chunk), SrtText(chunk[1].doc, 0, 1)) }

\* A count check that accepts every response.
CountAlwaysMatches(translatedChunk, chunk) == TRUE

\* The negation of the test of the throw in the loop.
CountMatches(translatedChunk, chunk) == Len(translatedChunk) = Len(chunk)

\* translatedTexts[i] || segment.text, in the record of segment i.
ReconstructSrt(segs, translatedTexts) ==
    [p \in 1..Len(segs) |->
        [index |-> segs[p].index, timing |-> segs[p].timing,
         text |-> IF p <= Len(translatedTexts) /\ translatedTexts[p] # EmptyString
                    THEN translatedTexts[p] ELSE segs[p].text]]

\* handleSrtFileChange with a file it refuses: the wrong extension or too large.
HandleSrtFileChangeInvalid(why) ==
    /\ srtStatus # "processing"
    /\ srtFileName' = NoFile
    /\ srtSegments' = << >>
    /\ translatedSrtContent' = NoContent
    /\ srtProgress' = Whole(0)
    /\ srtProgressLabel' = SrtLabel("", 0, 0)
    /\ srtError' = SrtErr(why, 0, 0, 0)
    /\ srtStatus' = "error"
    /\ srtLastOp' = [op |-> "select", j |-> 0]
    /\ UNCHANGED << fileVars, scribeVars, liveVars, liveHistory, translateVars, reads, srtJobs, planVars, pureVars, ttsStatus >>

\* handleSrtFileChange with the .srt file n: the read is started.  At most
\* maxReads reads are in flight.
HandleSrtFileChangeOf(n, maxReads) ==
    /\ srtStatus # "processing"
    /\ Cardinality(reads) < maxReads
    /\ n \notin reads
    /\ srtSegments' = << >>
    /\ translatedSrtContent' = NoContent
    /\ srtError' = NoError
    /\ srtProgress' = Whole(0)
    /\ srtProgressLabel' = SrtLabel("", 0, 0)
    /\ srtFileName' = n
    /\ srtStatus' = "uploading"
    /\ reads' = reads \cup {n}
    /\ srtLastOp' = [op |-> "select", j |-> 0]
    /\ UNCHANGED << fileVars, scribeVars, liveVars, liveHistory, translateVars, srtJobs, planVars, pureVars, ttsStatus >>

\* handleSrtFileChange with a .srt file of n blocks
HandleSrtFileChange(n) == HandleSrtFileChangeOf(n, MaxReads)

\* reader.onload of the read of file n, where parseSrt(content) is parsed
ReaderOnloadWith(n, parsed) ==
    /\ n \in reads
    /\ reads' = reads \ {n}
    /\ srtLastOp' = [op |-> "read", j |-> 0]
    /\ IF Len(parsed) = 0
         THEN /\ srtError' = SrtErr("parse", 0, 0, 0)
              /\ srtStatus' = "error"
              /\ UNCHANGED srtSegments
         ELSE /\ srtSegments' = parsed
              /\ srtStatus' = "idle"
              /\ UNCHANGED srtError
    /\ UNCHANGED << fileVars, scribeVars, liveVars, liveHistory, translateVars, srtFileName,
                    translatedSrtContent, srtProgress, srtProgressLabel, srtJobs, planVars, pureVars, ttsStatus >>

\* reader.onload of the read of a file of n well-formed blocks
ReaderOnload(n) == ReaderOnloadWith(n, ParsedDoc(n))

\* reader.onerror
ReaderOnerror(n) ==
    /\ n \in reads
    /\ reads' = reads \ {n}
    /\ srtLastOp' = [op |-> "read", j |-> 0]
    /\ srtError' = SrtErr("read", 0, 0, 0)
    /\ srtStatus' = "error"
    /\ UNCHANGED << fileVars, scribeVars, liveVars, liveHistory, translateVars, srtFileName, srtSegments,
                    translatedSrtContent, srtProgress, srtProgressLabel, srtJobs, planVars, pureVars, ttsStatus >>

\* The catch block of handleSrtTranslate.
SrtCatch(j, job, err) ==
    /\ srtError' = err
    /\ srtStatus' = "error"
    /\ srtProgress' = Whole(0)
    /\ srtProgressLabel' = SrtLabel("", 0, 0)
    /\ srtJobs' = [srtJobs EXCEPT ![j] = [job EXCEPT !.pc = "error"]]
    /\ UNCHANGED translatedSrtContent

\* The head of the loop of handleSrtTranslate at pass i with the texts
\* translated so far: another batch is sent, or the file is rebuilt.
SrtLoopHead(j, job, i, all) ==
    IF i < NumSrtChunks(Len(job.segs))
      THEN /\ srtProgressLabel' = SrtLabel("chunk", i + 1, NumSrtChunks(Len(job.segs)))
           /\ srtProgress' = Percent(i, NumSrtChunks(Len(job.segs)))
           /\ srtJobs' = [srtJobs EXCEPT ![j] =
                  [job EXCEPT !.pc = "awaiting", !.i = i, !.all = all,
                              !.sent = Append(job.sent, SrtChunk(TextsOf(job.segs), i))]]
           /\ UNCHANGED << translatedSrtContent, srtStatus, srtError >>
      ELSE IF Len(all) # Len(job.segs)
             THEN SrtCatch(j, [job EXCEPT !.i = i, !.all = all],
                           SrtErr("final", 0, Len(job.segs), Len(all)))
             ELSE /\ srtProgress' = Whole(100)
                  /\ srtProgressLabel' = SrtLabel("complete", 0, 0)
                  /\ translatedSrtContent' = ReconstructSrt(job.segs, all)
                  /\ srtStatus' = "finished"
                  /\ srtJobs' = [srtJobs EXCEPT ![j] =
                         [job EXCEPT !.pc = "finished", !.i = i, !.all = all]]
                  /\ UNCHANGED srtError

\* The Translate File button: the statements of handleSrtTranslate up to the
\* first await.
HandleSrtTranslate(j) ==
    /\ Len(srtSegments) > 0
    /\ srtStatus # "processing"
    /\ srtJobs[j].pc = "unused"
    /\ \A k \in SrtJobSlots : k < j => srtJobs[k].pc # "unused"
    /\ srtStatus' = "processing"
    /\ srtError' = NoError
    /\ translatedSrtContent' = NoContent
    /\ srtProgressLabel' = SrtLabel("chunk", 1, NumSrtChunks(Len(srtSegments)))
    /\ srtProgress' = Percent(0, NumSrtChunks(Len(srtSegments)))
    /\ srtJobs' = [srtJobs EXCEPT ![j] =
           [pc |-> "awaiting", segs |-> srtSegments, i |-> 0, all |-> << >>,
            sent |-> << SrtChunk(TextsOf(srtSegments), 0) >>, got |-> << >>]]
    /\ srtLastOp' = [op |-> "translate", j |-> j]
    /\ UNCHANGED << fileVars, scribeVars, liveVars, liveHistory, translateVars, srtFileName, srtSegments,
                    reads, planVars, pureVars, ttsStatus >>

\* The responses that invocation j can get to the batch it awaits.
SrtResponsesTo(j) ==
    IF srtJobs[j].pc = "awaiting"
      THEN SrtResponses(srtJobs[j].sent[Len(srtJobs[j].sent)])
      ELSE {}

\* generateContent resolves with a text that parses to translatedChunk.
SrtTranslateResolve(j, translatedChunk) ==
    /\ srtJobs[j].pc = "awaiting"
    /\ LET job == [srtJobs[j] EXCEPT !.got = Append(@, translatedChunk)]
           chunk == job.sent[Len(job.sent)]
       IN  IF CountMatches(translatedChunk, chunk)
             THEN SrtLoopHead(j, job, job.i + 1, job.all \o translatedChunk)
             ELSE SrtCatch(j, job, SrtErr("mismatch", job.i + 1, Len(chunk),
                                          Len(translatedChunk)))
    /\ srtLastOp' = [op |-> "response", j |-> j]
    /\ UNCHANGED << fileVars, scribeVars, liveVars, liveHistory, translateVars, srtFileName, srtSegments,
                    reads, planVars, pureVars, ttsStatus >>

\* generateContent rejects, or the text of the response is not JSON.
SrtTranslateFail(j) ==
    /\ srtJobs[j].pc = "awaiting"
    /\ SrtCatch(j, srtJobs[j], SrtErr("request", srtJobs[j].i + 1, 0, 0))
    /\ srtLastOp' = [op |-> "response", j |-> j]
    /\ UNCHANGED << fileVars, scribeVars, liveVars, liveHistory, translateVars, srtFileName, srtSegments,
                    reads, planVars, pureVars, ttsStatus >>

SrtNext ==
    \/ \E why \in {"type", "size"} : HandleSrtFileChangeInvalid(why)
    \/ \E n \in DocSizes : HandleSrtFileChange(n)
    \/ \E n \in DocSizes : ReaderOnload(n)
    \/ \E n \in DocSizes : ReaderOnerror(n)
    \/ \E j \in SrtJobIds : HandleSrtTranslate(j)
    \/ \E j \in SrtJobIds :
         \E translatedChunk \in SrtResponsesTo(j) : SrtTranslateResolve(j, translatedChunk)
    \/ \E j \in SrtJobIds : SrtTranslateFail(j)

SpecSrt == Init /\ [][SrtNext]_vars

\* ======================================== overlapping subtitle translations

\* Two files are selected one right after the other, so that the read of the
\* second is still under way when the first has been read and Translate File
\* is pressed: a one-record file and a file of one record more than a batch.
RaceDocs == {1, SRT_TRANSLATE_CHUNK_SIZE + 1}

\* The subtitle tab with every read and every invocation the buttons allow:
\* the upload button is disabled only while srtStatus is 'processing'
\* (line 1147), and so is Translate File (line 1183).
SrtRaceNext ==
    \/ \E n \in RaceDocs : HandleSrtFileChangeOf(n, MaxReads + 1)
    \/ \E n \in RaceDocs : ReaderOnload(n)
    \/ \E n \in RaceDocs : ReaderOnerror(n)
    \/ \E j \in SrtJobSlots : HandleSrtTranslate(j)
    \/ \E j \in SrtJobSlots :
         \E translatedChunk \in SrtResponsesTo(j) : SrtTranslateResolve(j, translatedChunk)
    \/ \E j \in SrtJobSlots : SrtTranslateFail(j)

SpecSrtRace == Init /\ [][SrtRaceNext]_vars

\* ===================================================== frame extraction

MaxSeconds == 130      \* whole seconds of the longest buffer chunked
MaxExtraFrames == 1000 \* frames of a buffer beyond its whole seconds

\* The buffers chunkAndTranscribeAudio is called with (line 532: longer
\* than CHUNK_DURATION_SECONDS): 55, 110 or 130 whole seconds and a few
\* frames more, mono, at the common sample rates.
ExtractSeconds == {CHUNK_DURATION_SECONDS, 2 * CHUNK_DURATION_SECONDS, MaxSeconds}
ExtractExtraFrames == {0, 1, 2, 3, 5, MaxExtraFrames}
ExtractSampleRates == {8000, 16000, 44100, 48000}

ExtractBuffers ==
    { [length |-> sec * rate + extra, numberOfChannels |-> 1, sampleRate |-> rate,
       wave |-> 4] :
        sec \in ExtractSeconds, extra \in ExtractExtraFrames, rate \in ExtractSampleRates }

\* chunkContext.createBuffer(numberOfChannels, frameCount, sampleRate) and
\* the copy of lines 501-505: subarray(begin, end) ends at the end of the
\* source, and createBuffer throws NotSupportedError for a buffer of no
\* frame
ChunkBuffer(buffer, i) ==
    LET frameOffset == FrameOffset(buffer, i)
        frameCount == FrameCount(buffer, i)
    IN  [length |-> frameCount, numberOfChannels |-> buffer.numberOfChannels,
         sampleRate |-> buffer.sampleRate,
         begin |-> frameOffset,
         end |-> IF frameOffset + frameCount < buffer.length
                   THEN frameOffset + frameCount ELSE buffer.length,
         threw |-> frameCount = 0]

\* chunkAndTranscribeAudio(audioBuffer) is called
ExtractStart(buffer) ==
    /\ audioBuffer = NoBuffer
    /\ buffer.length > CHUNK_DURATION_SECONDS * buffer.sampleRate
    /\ audioBuffer' = buffer
    /\ chunkBuffers' = << >>
    /\ UNCHANGED << fileVars, scribeVars, liveVars, liveHistory, srtVars, translateVars,
                    planVars, formatVars, wavVars, parseVars, captureVars, ttsStatus >>

\* pass i = Len(chunkBuffers) of the loop, lines 480-511; a pass that throws
\* is the last
ExtractChunk ==
    /\ audioBuffer # NoBuffer
    /\ Len(chunkBuffers) < NumFrameChunks(audioBuffer)
    /\ \A c \in 1..Len(chunkBuffers) : ~ chunkBuffers[c].threw
    /\ chunkBuffers' = Append(chunkBuffers, ChunkBuffer(audioBuffer, Len(chunkBuffers)))
    /\ UNCHANGED << fileVars, scribeVars, liveVars, liveHistory, srtVars, translateVars,
                    planVars, formatVars, wavVars, parseVars, captureVars, audioBuffer, ttsStatus >>

ExtractNext ==
    \/ \E buffer \in ExtractBuffers : ExtractStart(buffer)
    \/ ExtractChunk

SpecExtract == Init /\ [][ExtractNext]_vars

\* ========================================================= live capture

MaxCaptureFrames == 2   \* samples of an input buffer

\* The samples of the input buffers, in units of 1/SampleUnit: both ends of
\* the range, the samples next to them, half and quarter scale, the
\* smallest samples and silence.
CaptureSamples ==
    { 0 - SampleUnit, 1 - SampleUnit, 0 - (SampleUnit \div 2), 0 - 1, 0, 1,
      SampleUnit \div 4, SampleUnit \div 2, SampleUnit - 1, SampleUnit }

CaptureBuffers ==
    UNION { [1..l -> CaptureSamples] : l \in 1..MaxCaptureFrames }

\* processor.onaudioprocess, lines 371-377: int16[i] = inputData[i] * 32768
OnAudioProcess(data) ==
    /\ inputData' = data
    /\ int16' = [i \in 1..Len(data) |-> ToInt16(data[i] * 32768)]
    /\ UNCHANGED << fileVars, scribeVars, liveVars, liveHistory, srtVars, translateVars,
                    planVars, formatVars, wavVars, parseVars, extractVars, ttsStatus >>

CaptureNext == \E data \in CaptureBuffers : OnAudioProcess(data)

SpecCapture == Init /\ [][CaptureNext]_vars

\* ==================================================== timestamp formatter

\* The arguments formatSrtTime is called with: every combination of these
\* hours, minutes, seconds and milliseconds.
FormatHours == {0, 1, 23, 24, 25, 100}
FormatMinutes == {0, 59}
FormatSeconds == {0, 5, 45, 59}
FormatMillis == {0, 7, 999}

FormatInputs ==
    { h * MsPerHour + m * MsPerMinute + sec * MsPerSecond + k :
        h \in FormatHours, m \in FormatMinutes, sec \in FormatSeconds, k \in FormatMillis }

\* formatSrtTime(ms), as called for the start and the end of a segment
\* (lines 714-715).
FormatCall(ms) ==
    /\ formatMs' = ms
    /\ formatted' = FormatSrtTime(ms)
    /\ UNCHANGED << fileVars, scribeVars, liveVars, liveHistory, srtVars, translateVars,
                    planVars, wavVars, parseVars, extractVars, captureVars, ttsStatus >>

FormatNext == \E ms \in FormatInputs : FormatCall(ms)

SpecFormat == Init /\ [][FormatNext]_vars

\* ========================================================== WAV encoder

MaxFrames == 30        \* frames of the longest buffer encoded
MaxChannels == 2       \* channels of a buffer

\* The buffers audioBufferToWav is called with: empty, one or two frames, as many
\* samples as fit a header length, one frame more, and the longest.
WavFrames == {0, 1, 2, 22, 23, MaxFrames}
WavSampleRates == {16000, 44100}
WavWaves == 1..5

WavBuffers ==
    [length : WavFrames, numberOfChannels : 1..MaxChannels, sampleRate : WavSampleRates,
     wave : WavWaves]

\* audioBufferToWav(chunkBuffer), line 507
WavCall(buffer) ==
    /\ wavBuffer' = buffer
    /\ wavBytes' = AudioBufferToWav(buffer)
    /\ UNCHANGED << fileVars, scribeVars, liveVars, liveHistory, srtVars, translateVars,
                    planVars, formatVars, parseVars, extractVars, captureVars, ttsStatus >>

WavNext == \E buffer \in WavBuffers : WavCall(buffer)

SpecWav == Init /\ [][WavNext]_vars

\* ====================================================== subtitle parser

MaxBlocks == 2         \* blocks of a subtitle document

\* The blocks of the documents parsed here: (1) the position of the block
\* as index, timing, text; (2) timing, text; (3) another index, timing with
\* '.' before the milliseconds, text; (4) index, text; (5) text; (6) index,
\* timing; (7) timing and two lines of text; (8) index, text, timing.
BlockKinds == 1..8

\* The line ends: (1) line feeds, one empty line between blocks; (2) line
\* feeds, two empty lines between blocks; (3) carriage return and line feed.
SrtEols == 1..3

SrtDocs ==
    [blocks : UNION { [1..n -> BlockKinds] : n \in 0..MaxBlocks }, eol : SrtEols]

Letters == << "a", "b", "c", "d", "e", "f" >>

\* the text of the block at position p of its document
TextLine(p) == << Letters[p] >>

\* the index line of the block at position p, where it has one: the
\* position, or a number out of sequence
IndexBase == 10
IndexLine(p) == NumberToString(IndexBase + p)
PositionLine(p) == NumberToString(p)

Timestamp(second, separator) ==
    << "0", "0", ":", "0", "0", ":", "0", second, separator, "0", "0", "0" >>

TimingLine(separator) ==
    Timestamp("1", separator) \o << " ", "-", "-", ">", " " >> \o Timestamp("2", separator)

BlockLines(kind, p) ==
    CASE kind = 1 -> << PositionLine(p), TimingLine(","), TextLine(p) >>
      [] kind = 2 -> << TimingLine(","), TextLine(p) >>
      [] kind = 3 -> << IndexLine(p), TimingLine("."), TextLine(p) >>
      [] kind = 4 -> << IndexLine(p), TextLine(p) >>
      [] kind = 5 -> << TextLine(p) >>
      [] kind = 6 -> << IndexLine(p), TimingLine(",") >>
      [] kind = 7 -> << TimingLine(","), TextLine(p), TextLine(p) >>
      [] OTHER -> << IndexLine(p), TextLine(p), TimingLine(",") >>

Eol(eol) == IF eol = 3 THEN << "\r", "\n" >> ELSE << "\n" >>

BlockGap(eol) == IF eol = 2 THEN Eol(eol) \o Eol(eol) \o Eol(eol) ELSE Eol(eol) \o Eol(eol)

\* the text of a document: its blocks, the gaps between them, a last line end
SrtContentOf(doc) ==
    StrJoin([p \in 1..Len(doc.blocks) |->
                StrJoin(BlockLines(doc.blocks[p], p), Eol(doc.eol))],
            BlockGap(doc.eol)) \o Eol(doc.eol)

\* parseSrt(content), line 819: the one call of a run
ParseCall(doc) ==
    /\ srtContent = NoDoc
    /\ srtContent' = doc
    /\ parsedSrt' = ParseSrt(SrtContentOf(doc))
    /\ reparsedSrt' = ParseSrt(ReconstructSrtContent(ParseSrt(SrtContentOf(doc)), << >>))
    /\ UNCHANGED << fileVars, scribeVars, liveVars, liveHistory, srtVars, translateVars,
                    planVars, formatVars, wavVars, extractVars, captureVars, ttsStatus >>

ParseNext == \E doc \in SrtDocs : ParseCall(doc)

SpecParse == Init /\ [][ParseNext]_vars

\* ====================================================== subtitle upload

MaxUploadReads == 2    \* reads of subtitle files in flight at once

\* The files selected: an empty file, a file of two records, a file
\* without a well-formed block, a file of one record.
UploadDocs ==
    << [blocks |-> << >>, eol |-> 1],
       [blocks |-> << 1, 2 >>, eol |-> 1],
       [blocks |-> << 4, 5 >>, eol |-> 3],
       [blocks |-> << 3 >>, eol |-> 2] >>

UploadIds == 1..Len(UploadDocs)

\* reader.onload of the read of file n (lines 817-827)
ReaderOnloadDoc(n) == ReaderOnloadWith(n, ParseSrt(SrtContentOf(UploadDocs[n])))

UploadNext ==
    \/ \E why \in {"type", "size"} : HandleSrtFileChangeInvalid(why)
    \/ \E n \in UploadIds : HandleSrtFileChangeOf(n, MaxUploadReads)
    \/ \E n \in UploadIds : ReaderOnloadDoc(n)
    \/ \E n \in UploadIds : ReaderOnerror(n)

SpecUpload == Init /\ [][UploadNext]_vars

\* ================================================================ claims

\* stored = round(ticks / TicksPerMs), a half going up:
\* stored - 1/2 <= ticks / TicksPerMs < stored + 1/2.
IsRoundedMs(stored, ticks) ==
    /\ 2 * TicksPerMs * stored - TicksPerMs <= 2 * ticks
    /\ 2 * ticks < 2 * TicksPerMs * stored + TicksPerMs

\* C1: every segment in the list that came from chunk i of a file carries
\* startTime = round((s.startTime + i * 55) * 1000) and endTime =
\* round((s.endTime + i * 55) * 1000) of its response entry; the offset passed
\* for chunk i is i * 55, and 0 in the single-unit path.
C1_OffsetShift ==
    /\ \A p \in DOMAIN segments :
          LET s == segments[p]
              o == s.text.chunk * 55 * TicksPerSecond
          IN /\ IsRoundedMs(s.startTime, RawSpan(s.text.k)[1] + o)
             /\ IsRoundedMs(s.endTime, RawSpan(s.text.k)[2] + o)
    /\ \A j \in JobIds : \A r \in DOMAIN reqs[j] :
          /\ reqs[j][r].offset = reqs[j][r].chunk * 55
          /\ reqs[j][r].whole => reqs[j][r].offset = 0

\* A 130 s file whose three chunks each returned two entries: the first entry
\* of chunk 2 (0.5125 s into the chunk) is stored at 110512.5 ms rounded up.
C1_Witness ==
    /\ Len(segments) = 6
    /\ segments[5].text.chunk = 2
    /\ segments[5].startTime = 110513
    /\ segments[1].startTime = 513

\* C2: within one job the segments of chunk i precede those of chunk j for
\* i < j, and the segments of one chunk keep the order of the response.
C2_ChunkOrder ==
    \A p, q \in DOMAIN segments :
        (p < q /\ segments[p].text.job = segments[q].text.job) =>
            \/ segments[p].text.chunk < segments[q].text.chunk
            \/ /\ segments[p].text.chunk = segments[q].text.chunk
               /\ segments[p].text.k < segments[q].text.k

C2_Witness ==
    /\ Len(segments) = 4
    /\ segments[1].text = [job |-> 1, chunk |-> 0, k |-> 1]
    /\ segments[2].text = [job |-> 1, chunk |-> 0, k |-> 2]
    /\ segments[3].text = [job |-> 1, chunk |-> 1, k |-> 1]
    /\ segments[4].text = [job |-> 1, chunk |-> 1, k |-> 2]

\* C3: no segment of a job that was cancelled while a request of it was in
\* flight is in the segment list (the cancel empties the list, so such a
\* segment was appended after the cancel).
C3_CancelledResponseDiscarded ==
    \A p \in DOMAIN segments : cancelledAt[segments[p].text.job].pc # "awaiting"

\* C4: after a cancel, and until the user's next operation, the status is
\* IDLE, the error is null and the progress is not 100.
C4_CancelStaysIdle ==
    lastOp = "cancel" =>
        /\ status = "IDLE"
        /\ error = NULL
        /\ progress # Whole(100)

\* C5: a job that a cancel hit while it was at chunk i issues no request for
\* a chunk j > i.
C5_NoRequestAfterCancel ==
    \A j \in JobIds :
        cancelledAt[j].chunk >= 0 =>
            \A r \in DOMAIN reqs[j] : reqs[j][r].chunk <= cancelledAt[j].chunk

\* The words of a text.
WordsOf(t) == { t[x] : x \in DOMAIN t } \ { Blank }

\* C6: while the recording runs, the segment list is the one a reconciler
\* holds that, at every turn boundary, finalizes the trimmed concatenation of
\* all partial texts received since the previous boundary, with the time of
\* the first of them as startTime and the time of the turn-complete event as
\* endTime.
C6_TurnFinalizesAllPartials ==
    (status = "RECORDING" /\ \A s \in StopIds : stops[s] = "unused") =>
        segments = turnSegments

\* C7: once a manual stop of a recording that had received partial text has
\* completed, the partial segment is empty and every word received before
\* the stop is in some segment.
C7_StopFinalizesPending ==
    (/\ status = "FINISHED"
     /\ lastOp = "stop"
     /\ heardAtStop # {}
     /\ \A s \in StopIds : stops[s] # "closing") =>
        /\ currentSegment = EmptySegment
        /\ \A w \in heardAtStop : \E p \in DOMAIN segments : w \in WordsOf(segments[p].text)

\* C8: no accumulated partial text is finalized twice: no word is in two
\* segments of the list.
C8_FinalizedAtMostOnce ==
    \A p, q \in DOMAIN segments :
        p # q => WordsOf(segments[p].text) \cap WordsOf(segments[q].text) = {}

\* The concatenation of a sequence of sequences, in order.
RECURSIVE Flatten(_)
Flatten(seqs) == IF seqs = << >> THEN << >> ELSE Head(seqs) \o Flatten(Tail(seqs))

\* C9: an invocation of handleSrtTranslate over n texts sends consecutive
\* batches: every batch has between 1 and 50 texts, there are never more than
\* ceil(n / 50) of them, and the batches sent so far, concatenated in the
\* order they were sent, are the first texts of the input.  When the
\* invocation succeeds it has sent exactly ceil(n / 50) batches whose
\* concatenation is the input, allTranslatedTexts has exactly n texts, and
\* the text at position p is the text the capability returned for the input
\* at position p (the text at the same place of the response to the batch
\* that carried position p).
C9_BatchPartition ==
    \A j \in SrtJobIds :
        LET job == srtJobs[j]
            texts == TextsOf(job.segs)
            n == Len(texts)
            numBatches == (n + SRT_TRANSLATE_CHUNK_SIZE - 1) \div SRT_TRANSLATE_CHUNK_SIZE
        IN  job.pc # "unused" =>
              /\ Len(job.sent) <= numBatches
              /\ \A b \in 1..Len(job.sent) :
                    Len(job.sent[b]) \in 1..SRT_TRANSLATE_CHUNK_SIZE
              /\ Flatten(job.sent) = SubSeq(texts, 1, Len(Flatten(job.sent)))
              /\ job.pc = "finished" =>
                    /\ Len(job.sent) = numBatches
                    /\ Flatten(job.sent) = texts
                    /\ Len(job.all) = n
                    /\ \A p \in 1..n :
                          job.all[p] = job.got[((p - 1) \div SRT_TRANSLATE_CHUNK_SIZE) + 1]
                                              [((p - 1) % SRT_TRANSLATE_CHUNK_SIZE) + 1]

\* A file of 101 texts was translated in three batches, the last one of a
\* single text, and the translation of text 51 stands at position 51.
C9_Witness ==
    \E j \in SrtJobIds :
        /\ srtJobs[j].pc = "finished"
        /\ Len(srtJobs[j].segs) = 2 * SRT_TRANSLATE_CHUNK_SIZE + 1
        /\ Len(srtJobs[j].sent) = 3
        /\ Len(srtJobs[j].sent[3]) = 1
        /\ srtJobs[j].all[SRT_TRANSLATE_CHUNK_SIZE + 1] =
              SrtText(2 * SRT_TRANSLATE_CHUNK_SIZE + 1, SRT_TRANSLATE_CHUNK_SIZE + 1, 1)

\* The responses of an invocation whose count differs from the batch's.
Mismatches(job) == { b \in 1..Len(job.got) : Len(job.got[b]) # Len(job.sent[b]) }

\* C10: once a response to an invocation of handleSrtTranslate has a count
\* different from its batch's, the invocation has failed: the mismatching
\* response is the last one it got and its batch the last one it sent,
\* allTranslatedTexts is exactly the concatenation of the earlier responses
\* (nothing padded, nothing truncated), and straight after that response
\* srtStatus is 'error', srtError names the batch with the count sent and
\* the count returned, progress is 0, and translatedSrtContent is null
\* unless another invocation has produced one.
C10_MismatchFails ==
    \A j \in SrtJobIds :
        LET job == srtJobs[j] IN
        Mismatches(job) # {} =>
            /\ job.pc = "error"
            /\ Mismatches(job) = {Len(job.got)}
            /\ Len(job.sent) = Len(job.got)
            /\ job.all = Flatten(SubSeq(job.got, 1, Len(job.got) - 1))
            /\ srtLastOp = [op |-> "response", j |-> j] =>
                  /\ srtStatus = "error"
                  /\ srtError = SrtErr("mismatch", Len(job.got),
                                       Len(job.sent[Len(job.got)]),
                                       Len(job.got[Len(job.got)]))
                  /\ srtProgress = Whole(0)
                  /\ (\A k \in SrtJobIds : srtJobs[k].pc # "finished")
                        => translatedSrtContent = NoContent

\* The second batch of a file of 101 texts came back one text short: the
\* translation has just failed with two batches sent and the third never
\* requested.
C10_Witness ==
    \E j \in SrtJobIds :
        /\ srtLastOp = [op |-> "response", j |-> j]
        /\ Len(srtJobs[j].segs) = 2 * SRT_TRANSLATE_CHUNK_SIZE + 1
        /\ Len(srtJobs[j].got) = 2
        /\ Len(srtJobs[j].got[2]) = SRT_TRANSLATE_CHUNK_SIZE - 1
        /\ Len(srtJobs[j].all) = SRT_TRANSLATE_CHUNK_SIZE
        /\ srtStatus = "error"
        /\ srtError.expected = SRT_TRANSLATE_CHUNK_SIZE
        /\ srtError.got = SRT_TRANSLATE_CHUNK_SIZE - 1

\* C11: when a segment translation has just completed, translatedSegments
\* has as many segments as the list that was translated and, at every
\* position, the startTime and endTime of the source segment.
C11_TranslationKeepsShape ==
    \A t \in TrJobIds :
        (trJobs[t].pc = "done" /\ lastOp = "translated") =>
            /\ Len(translatedSegments) = Len(segments)
            /\ \A k \in 1..Len(translatedSegments) :
                  /\ translatedSegments[k].startTime = segments[k].startTime
                  /\ translatedSegments[k].endTime = segments[k].endTime

\* The sum of the durations of a plan.
RECURSIVE SumDurations(_)
SumDurations(p) == IF p = << >> THEN 0 ELSE Head(p).duration + SumDurations(Tail(p))

\* The plan of the buffer is complete: the loop has made all its passes.
PlanComplete == planTotal > 0 /\ Len(plan) = NumChunks(planTotal)

\* C12: for a total duration above 55 s, every chunk planned so far has
\* offset i * 55 (chunks counted from 0), duration min(55, total - offset),
\* which is positive, and starts where the chunk before it ends; there are
\* never more than ceil(total / 55) chunks, and the complete plan has
\* exactly ceil(total / 55) chunks whose durations sum to the total.
C12_ChunkPlan ==
    planTotal > CHUNK_DURATION_SECONDS =>
        /\ Len(plan) * CHUNK_DURATION_SECONDS < planTotal + CHUNK_DURATION_SECONDS
        /\ \A c \in 1..Len(plan) :
              /\ plan[c].offset = (c - 1) * CHUNK_DURATION_SECONDS
              /\ plan[c].duration > 0
              /\ plan[c].duration <= CHUNK_DURATION_SECONDS
              /\ plan[c].duration <= planTotal - plan[c].offset
              /\ plan[c].duration = CHUNK_DURATION_SECONDS
                    \/ plan[c].duration = planTotal - plan[c].offset
              /\ c > 1 => plan[c].offset = plan[c - 1].offset + plan[c - 1].duration
        /\ PlanComplete =>
              /\ (Len(plan) - 1) * CHUNK_DURATION_SECONDS < planTotal
              /\ planTotal <= Len(plan) * CHUNK_DURATION_SECONDS
              /\ SumDurations(plan) = planTotal

\* A buffer of 111 s has been planned: three chunks, the last of one second.
C12_Witness ==
    /\ planTotal = 2 * CHUNK_DURATION_SECONDS + 1
    /\ Len(plan) = 3
    /\ plan[3].duration = 1

\* The offsets and the durations of the plan, as lists.
PlanOffsets == [c \in 1..Len(plan) |-> plan[c].offset]

PlanDurations == [c \in 1..Len(plan) |-> plan[c].duration]

\* C14, as amended: the complete plan of a 130-second buffer has 3 chunks
\* with offsets [0, 55, 110] and durations [55, 55, 20].
C14_Plan130 ==
    (planTotal = 130 /\ PlanComplete) =>
        /\ Len(plan) = 3
        /\ PlanOffsets = << 0, 55, 110 >>
        /\ PlanDurations = << 55, 55, 20 >>

\* The 130-second buffer has been planned.
C14_Witness == planTotal = 130 /\ PlanComplete /\ Len(plan) = 3

\* C14, as stated: the complete plan of a 130-second buffer has 3 chunks
\* with offsets [0, 55, 100] and durations [55, 55, 30].
C14_Plan130AsStated ==
    (planTotal = 130 /\ PlanComplete) =>
        /\ Len(plan) = 3
        /\ PlanOffsets = << 0, 55, 100 >>
        /\ PlanDurations = << 55, 55, 30 >>

\* C13: while an invocation of processAndTranscribeFile runs on a file of
\* at most 55 s, it has issued at most one request, that request is for the
\* whole original file with offset 0, the chunk loop is never entered, and
\* once the invocation awaits its response or has completed it has issued
\* exactly one; on a file longer than 55 s no request is for the whole
\* file, and a completed invocation has issued at least two requests, for
\* chunks 0, 1, ... in order.
C13_SingleUnitBoundary ==
    \A j \in JobIds :
        jobs[j].pc \notin {"unused", "done"} =>
            IF jobs[j].duration <= CHUNK_DURATION_SECONDS
              THEN /\ Len(reqs[j]) <= 1
                   /\ \A r \in 1..Len(reqs[j]) :
                         reqs[j][r].whole /\ reqs[j][r].offset = 0
                   /\ jobs[j].pc # "encoding"
                   /\ jobs[j].pc \in {"awaiting", "timer"} => Len(reqs[j]) = 1
              ELSE /\ \A r \in 1..Len(reqs[j]) :
                         ~reqs[j][r].whole /\ reqs[j][r].chunk = r - 1
                   /\ jobs[j].pc = "timer" => Len(reqs[j]) >= 2

\* A file of exactly 55 s has been transcribed with its single request.
C13_Witness ==
    \E j \in JobIds :
        /\ jobs[j].pc = "timer"
        /\ jobs[j].duration = CHUNK_DURATION_SECONDS
        /\ Len(reqs[j]) = 1
        /\ Len(segments) > 0

\* C15: when the status is ERROR with the message of a failed file
\* transcription, the segment list is empty (the segments the failed job had
\* accumulated are gone).
C15_FailureDiscardsSegments ==
    (status = "ERROR" /\ error = "Failed to process the audio file") => segments = << >>

\* C16: no segment in the list was made from a response entry that lacks
\* the startTime or endTime of the expected structure (the job that got
\* such a response ended in ERROR without appending).
C16_MalformedResponseRejected ==
    \A p \in DOMAIN segments :
        segments[p].startTime # NaN /\ segments[p].endTime # NaN

\* C20: every segment in the list whose times are numbers satisfies
\* 0 <= startTime <= endTime.
C20_TimesOrdered ==
    \A p \in DOMAIN segments :
        (segments[p].startTime # NaN /\ segments[p].endTime # NaN) =>
            /\ 0 <= segments[p].startTime
            /\ segments[p].startTime <= segments[p].endTime

\* C17: a segment translation that has been started (status TRANSLATING)
\* eventually reaches the status FINISHED or ERROR, given that the request
\* settles and the timer fires.
C17_TranslationTerminates ==
    (status = "TRANSLATING") ~> (status \in {"FINISHED", "ERROR"})

\* C18: when the status is ERROR or FINISHED and neither a start nor a stop
\* of the live capture is under way, the microphone stream, the audio
\* processor, the audio context and the live session have all been released.
C18_NoHalfOpenCapture ==
    (/\ status \in {"ERROR", "FINISHED"}
     /\ recPc = "off"
     /\ \A s \in StopIds : stops[s] # "closing")
    => /\ streamRef = NULL
       /\ scriptProcessorRef = NULL
       /\ audioContextRef = NULL
       /\ sessionPromiseRef = NULL

\* C19, as amended: a session error runs the stop sequence, so the partial
\* text that currentSegmentRef holds at the time of the error (the partial
\* as of the last render), when it is not blank, is turned into a segment:
\* the step appends one segment with that text trimmed, its startTime, and
\* the time of the error as endTime, and empties the partial segment.
C19_ErrorFinalizesPartial ==
    [][\A s \in StopIds :
          (OnSessionError(s) /\ Trim(currentSegmentRef.text) # << >>
                             /\ currentSegmentRef.startTime # NoTime) =>
              /\ Len(segments') = Len(segments) + 1
              /\ SubSeq(segments', 1, Len(segments)) = segments
              /\ segments'[Len(segments')].text = Trim(currentSegmentRef.text)
              /\ segments'[Len(segments')].startTime = currentSegmentRef.startTime
              /\ segments'[Len(segments')].endTime = now - recordingStartTimeRef
              /\ currentSegment' = EmptySegment]_vars

\* A session error has stopped a recording that had received one partial
\* text and no turn boundary, without a manual stop: the list holds the
\* segment made from the partial.
C19_Witness ==
    /\ lastOp = "sessionError"
    /\ turns = 0
    /\ partials = 1
    /\ Len(segments) = 1
    /\ segments[1].text = << Word(1) >>
    /\ currentSegment = EmptySegment

\* C19, as stated: after a session error in a recording that reached no
\* turn boundary, no partial text has been turned into a segment.
C19_ErrorLosesPartialAsStated ==
    (lastOp = "sessionError" /\ turns = 0) => segments = << >>

\* Reading a timestamp back: the text is cut at ':' and ',' and the fields
\* are read as decimal numbers.
RECURSIVE SplitFields(_, _)
SplitFields(str, seps) ==
    IF str = << >> THEN << << >> >>
    ELSE LET rest == SplitFields(Tail(str), seps)
         IN  IF Head(str) \in seps THEN << << >> >> \o rest
             ELSE << << Head(str) >> \o Head(rest) >> \o Tail(rest)

DigitValue(c) == (CHOOSE d \in 1..10 : DigitChars[d] = c) - 1

RECURSIVE ParseNumber(_)
ParseNumber(str) ==
    IF str = << >> THEN 0
    ELSE 10 * ParseNumber(SubSeq(str, 1, Len(str) - 1)) + DigitValue(str[Len(str)])

TimeFields(str) == SplitFields(str, {":", ","})

ParseTimestamp(str) ==
    LET f == TimeFields(str)
    IN  ParseNumber(f[1]) * MsPerHour + ParseNumber(f[2]) * MsPerMinute
          + ParseNumber(f[3]) * MsPerSecond + ParseNumber(f[4])

\* C21: for every non-negative integer ms, reading the string returned by
\* formatSrtTime(ms) as HH:MM:SS,mmm gives back ms.
C21_FormatRoundTrip ==
    formatMs # NoTime => ParseTimestamp(formatted) = formatMs

\* C22: the hours field is not wrapped at 24 (it is ms div 3,600,000 from
\* 86,400,000 on), and the minutes, seconds and milliseconds fields are
\* (ms div 60000) mod 60, (ms div 1000) mod 60 and ms mod 1000, padded with
\* zeros to 2, 2 and 3 digits.
C22_FormatFields ==
    formatMs # NoTime =>
        LET f == TimeFields(formatted)
        IN  /\ Len(f) = 4
            /\ formatMs >= HoursPerDay * MsPerHour =>
                   f[1] = NumberToString(formatMs \div MsPerHour)
            /\ f[2] = PadStart(NumberToString((formatMs \div MsPerMinute) % 60), 2, "0")
            /\ f[3] = PadStart(NumberToString((formatMs \div MsPerSecond) % 60), 2, "0")
            /\ f[4] = PadStart(NumberToString(formatMs % MsPerSecond), 3, "0")

\* the unsigned little-endian number in n bytes from byte pos (0-based)
RECURSIVE ReadUint(_, _, _)
ReadUint(bytes, pos, n) ==
    IF n = 0 THEN 0 ELSE bytes[pos + 1] + 256 * ReadUint(bytes, pos + 1, n - 1)

\* the signed 16-bit little-endian number at byte pos
ReadInt16(bytes, pos) ==
    LET u == ReadUint(bytes, pos, 2) IN IF u >= 32768 THEN u - 65536 ELSE u

\* C23: for a buffer of F frames and C channels the result has 44 + 2*F*C
\* bytes, the 16-bit little-endian value at byte 44 + 2*(f*C + c) is the
\* encoding of sample f of channel c for every frame f < F and channel
\* c < C, the RIFF size field is the total length - 8 and the data size
\* field is 2*F*C.
C23_WavLayout ==
    wavBuffer # NoBuffer =>
        LET F == wavBuffer.length
            C == wavBuffer.numberOfChannels
        IN  /\ Len(wavBytes) = 44 + 2 * F * C
            /\ ReadUint(wavBytes, 4, 4) = Len(wavBytes) - 8
            /\ ReadUint(wavBytes, 40, 4) = 2 * F * C
            /\ \A f \in 0..(F - 1) : \A c \in 0..(C - 1) :
                   ReadInt16(wavBytes, 44 + 2 * (f * C + c))
                     = EncodeSample(GetChannelData(wavBuffer, c, f))

\* the position in its document of the block a record was made from, read
\* from the first letter of its text
RecordPosition(rec) == CHOOSE p \in 1..Len(Letters) : Letters[p] = rec.text[1]

\* the first line of the block is an index line
HasIndexLine(lines) == IsDigits(lines[1])

\* the lines of the block at position p of the document
LinesAt(doc, p) == BlockLines(doc.blocks[p], p)

\* C24: a document in which no block has a leading index line parses to the
\* indices 1..N in document order; a block without an index line gets the
\* label 1 + (number of records already parsed), so two blocks of which the
\* second lacks its index parse to the indices [1, 2]; the order of the
\* records is the order of the blocks.
C24_GeneratedIndices ==
    srtContent # NoDoc =>
        LET N == Len(parsedSrt)
            Pos(k) == RecordPosition(parsedSrt[k])
        IN  /\ \A k \in 1..N : \A l \in 1..N : k < l => Pos(k) < Pos(l)
            /\ \A k \in 1..N :
                   ~ HasIndexLine(LinesAt(srtContent, Pos(k))) => parsedSrt[k].index = k
            /\ (\A p \in 1..Len(srtContent.blocks) : ~ HasIndexLine(LinesAt(srtContent, p)))
                   => \A k \in 1..N : parsedSrt[k].index = k
            /\ srtContent.blocks \in { << 1, 2 >>, << 1, 7 >> } =>
                   [k \in 1..N |-> parsedSrt[k].index] = << 1, 2 >>

\* Three cases have been parsed: two blocks of which the second lacks its
\* index, a block without index after a skipped block, and a block without
\* index after a record with an index out of sequence.
C24_Witness ==
    \/ /\ srtContent.blocks = << 1, 2 >>
       /\ Len(parsedSrt) = 2 /\ parsedSrt[1].index = 1 /\ parsedSrt[2].index = 2
    \/ /\ srtContent.blocks = << 5, 2 >>
       /\ Len(parsedSrt) = 1 /\ parsedSrt[1].index = 1 /\ parsedSrt[1].text = TextLine(2)
    \/ /\ srtContent.blocks = << 3, 7 >>
       /\ Len(parsedSrt) = 2 /\ parsedSrt[1].index = IndexBase + 1 /\ parsedSrt[2].index = 2

\* C25: the timing of a record made from a block whose timing line has '.'
\* before the milliseconds has ',' in the start and in the end timestamp, and
\* no '.'.
C25_TimingNormalized ==
    \A k \in 1..Len(parsedSrt) :
        Includes(LinesAt(srtContent, RecordPosition(parsedSrt[k]))[2], << "." >>) =>
            /\ parsedSrt[k].timing = TimingLine(",")
            /\ ~ Includes(parsedSrt[k].timing, << "." >>)

\* a block as the parser accepts it: at least 2 lines, a line with '-->'
\* directly after the optional index line, and text that is not blank
IsWellFormedBlock(lines) ==
    /\ Len(lines) >= 2
    /\ LET t == IF HasIndexLine(lines) THEN 2 ELSE 1
       IN  /\ Includes(lines[t], << "-", "-", ">" >>)
           /\ \E m \in (t + 1)..Len(lines) : StrTrim(lines[m]) # << >>

\* the positions of the blocks of the document that the parser accepts
WellFormedPositions(doc) ==
    SelectSeq([p \in 1..Len(doc.blocks) |-> p],
              LAMBDA p : IsWellFormedBlock(LinesAt(doc, p)))

\* C26: parseSrt returns exactly the blocks that have at least 2 lines, a
\* line with '-->' directly after the optional index line and text that is
\* not blank; when it returns no record the upload ends with srtStatus
\* 'error' and an empty record list, so that translation cannot be started.
C26_ZeroRecordsIsFailure ==
    [][\A n \in UploadIds :
          ReaderOnloadDoc(n) =>
              LET parsed == ParseSrt(SrtContentOf(UploadDocs[n]))
              IN  /\ [k \in 1..Len(parsed) |-> RecordPosition(parsed[k])]
                       = WellFormedPositions(UploadDocs[n])
                  /\ Len(parsed) = 0 => (srtStatus' = "error" /\ srtSegments' = << >>)]_vars

\* C27: reconstructSrt emits one block per record, in record order, with
\* the index and the timing of the record; the text of block i is
\* replacementTexts[i] whenever there is a replacement at position i,
\* whatever its value, and the text of the record only when there is none.
C27_ReplacementWins ==
    \A j \in SrtJobIds :
        LET job == srtJobs[j] IN
        (job.pc = "finished" /\ srtLastOp = [op |-> "response", j |-> j]) =>
            /\ Len(translatedSrtContent) = Len(job.segs)
            /\ \A p \in 1..Len(job.segs) :
                   /\ translatedSrtContent[p].index = job.segs[p].index
                   /\ translatedSrtContent[p].timing = job.segs[p].timing
                   /\ translatedSrtContent[p].text =
                          IF p <= Len(job.all) THEN job.all[p] ELSE job.segs[p].text

\* the requests of job j that have not been answered
InFlight(j) == { r \in 1..Len(reqs[j]) : ~ reqs[j][r].answered }

\* C28: within one file-transcription job the request for chunk i+1 is
\* issued only after the request for chunk i has been answered: every
\* request but the last has been answered, so the job never has more than
\* one request in flight.
C28_ChunksSequential ==
    \A j \in JobIds :
        /\ \A r \in 1..Len(reqs[j]) : r < Len(reqs[j]) => reqs[j][r].answered
        /\ Cardinality(InFlight(j)) <= 1

\* The third chunk of a 130 s file has been sent and is awaited; the first
\* two have been answered.
C28_Witness ==
    \E j \in JobIds :
        /\ jobs[j].duration = 130
        /\ Len(reqs[j]) = 3
        /\ InFlight(j) = {3}
        /\ jobs[j].pc = "awaiting"

\* the invocations that can still send a request or append to the list
Running == { j \in JobSlots : jobs[j].pc \in {"reading", "decoding", "encoding", "awaiting"} }

\* the invocations started so far
Started == { j \in JobSlots : jobs[j].pc # "unused" }

\* C29: at most one transcription job is active: under every sequence of
\* uploads and cancellations there are never two invocations that can both
\* still send requests or append to the segment list, and no segment of an
\* earlier job is in the segment list once a later job has started.
C29_OneActiveJob ==
    /\ Cardinality(Running) <= 1
    /\ \A k \in 1..Len(segments) : \A j \in Started : segments[k].text.job >= j

\* C30: the startTime of every finalized live segment is the time of the
\* first non-empty partial event received after the previous turn boundary
\* (or the start of the session), whatever partial events came later; it is
\* never earlier than the previous turn-complete event, also after a turn of
\* white space only.  Stated of the step that appends the segment, where the
\* first partial event of the turn may be the event of the step itself.
C30_StartTimeFixed ==
    [][Len(segments') = Len(segments) + 1 =>
          LET seg == segments'[Len(segments')]
          IN  /\ seg.startTime = IF firstPartialAt # NoTime THEN firstPartialAt
                                 ELSE now - recordingStartTimeRef
              /\ boundaryAt # NoTime => seg.startTime >= boundaryAt]_vars


\* ---------------------------------------------------------------- C31
\* The translation requests in flight: an invocation that awaits a response.
SrtInFlight == { j \in SrtJobSlots : srtJobs[j].pc = "awaiting" }

\* C31: subtitle batches are processed strictly in sequence.  At most one
\* translation request is in flight; a request for batch i is issued only when
\* batches 0..i-1 have returned with the count of their batch; the progress
\* reported when batch i is issued is i / numBatches * 100; and progress 100
\* is reported only when every batch of every invocation has completed.
C31_BatchesSequential ==
    [][/\ Cardinality(SrtInFlight') <= 1
       /\ \A j \in SrtJobSlots :
            Len(srtJobs'[j].sent) = Len(srtJobs[j].sent) + 1 =>
              LET job == srtJobs'[j]
              IN  /\ Len(job.got) = job.i
                  /\ Len(job.sent) = job.i + 1
                  /\ \A k \in 1..job.i : Len(job.got[k]) = Len(job.sent[k])
                  /\ srtProgress' = Percent(job.i, NumSrtChunks(Len(job.segs)))
       /\ (srtProgress' = Whole(100) /\ srtProgress # Whole(100)) =>
              /\ SrtInFlight' = {}
              /\ \A j \in SrtJobSlots :
                   srtJobs'[j].pc = "finished" =>
                     Len(srtJobs'[j].got) = NumSrtChunks(Len(srtJobs'[j].segs))]_vars

\* ---------------------------------------------------------------- C32
\* the frames of the buffer that the loop of audioBufferToWav reaches
FramesEncoded ==
    { f \in 0..(wavBuffer.length - 1) :
        WavHeaderLength + 2 * f * wavBuffer.numberOfChannels
          < Len(wavBytes) - WavHeaderLength }

\* a sample x (in units of 1/SampleUnit) clamped to [-1, 1], multiplied by
\* 32768 if it is negative and by 32767 if it is not, the fraction dropped
ScaledBySign(x) ==
    LET sample == IF x > SampleUnit THEN SampleUnit
                  ELSE IF x < 0 - SampleUnit THEN 0 - SampleUnit ELSE x
        scaled == IF sample < 0 THEN sample * 32768 ELSE sample * 32767
    IN  IF scaled >= 0 THEN scaled \div SampleUnit
        ELSE 0 - ((0 - scaled) \div SampleUnit)

\* C32: every sample that audioBufferToWav stores is the sample clamped to
\* [-1, 1], multiplied by 32768 when negative and by 32767 when not, and
\* truncated toward zero; the stored value lies in [-32768, 32767].
C32_ScaledBySign ==
    wavBuffer # NoBuffer =>
        \A f \in FramesEncoded : \A c \in 0..(wavBuffer.numberOfChannels - 1) :
            LET stored == ReadInt16(wavBytes,
                                    WavHeaderLength + 2 * (f * wavBuffer.numberOfChannels + c))
            IN  /\ stored = ScaledBySign(GetChannelData(wavBuffer, c, f))
                /\ stored >= 0 - 32768
                /\ stored <= 32767

\* ---------------------------------------------------------------- C33
\* the PCM data of the encoded file: what follows the header
PcmData == SubSeq(wavBytes, WavHeaderLength + 1, Len(wavBytes))

\* C33: decoding the PCM data that audioBufferToWav made of a waveform with
\* samples in [-1, 1] gives every sample of every channel back within
\* 1/32767:  | x / SampleUnit - q / 32768 | <= 1 / 32767.
C33_WavRoundTrip ==
    (wavBuffer # NoBuffer /\ wavBuffer.wave \in 1..4) =>
        LET decoded == DecodeAudioData(PcmData, wavBuffer.numberOfChannels)
        IN  \A c \in 0..(wavBuffer.numberOfChannels - 1) :
                /\ DOMAIN decoded[c] = 0..(wavBuffer.length - 1)
                /\ \A f \in 0..(wavBuffer.length - 1) :
                       LET diff == GetChannelData(wavBuffer, c, f) * (DecodeUnit \div SampleUnit)
                                     - decoded[c][f]
                       IN  (IF diff < 0 THEN 0 - diff ELSE diff) * 32767 <= DecodeUnit

\* ---------------------------------------------------------------- C34
\* the loop of chunkAndTranscribeAudio has come to its end
ExtractComplete ==
    /\ audioBuffer # NoBuffer
    /\ \/ Len(chunkBuffers) = NumFrameChunks(audioBuffer)
       \/ \E c \in 1..Len(chunkBuffers) : chunkBuffers[c].threw

RECURSIVE SumOfLengths(_)
SumOfLengths(chunks) ==
    IF chunks = << >> THEN 0 ELSE Head(chunks).length + SumOfLengths(Tail(chunks))

\* C34: the chunks cover the source buffer exactly.  Chunk i starts at frame
\* floor(offset[i] * sampleRate), where chunk i-1 ended (the first at frame
\* 0), has at least one frame and holds the frames of the source from its
\* start to its end; the frame counts sum to the length of the source, so
\* every frame of the source is in exactly one chunk.
C34_FramesCovered ==
    audioBuffer # NoBuffer =>
        /\ \A c \in 1..Len(chunkBuffers) :
              LET chunk == chunkBuffers[c]
              IN  /\ chunk.length >= 1
                  /\ chunk.begin = ChunkOffset(c - 1) * audioBuffer.sampleRate
                  /\ chunk.begin = IF c = 1 THEN 0 ELSE chunkBuffers[c - 1].end
                  /\ chunk.end = chunk.begin + chunk.length
        /\ ExtractComplete =>
              /\ SumOfLengths(chunkBuffers) = audioBuffer.length
              /\ \A f \in {0, audioBuffer.length - 1} :
                    Cardinality({ c \in 1..Len(chunkBuffers) :
                        chunkBuffers[c].begin <= f /\ f < chunkBuffers[c].end }) = 1

\* ---------------------------------------------------------------- C35
\* a stop has run its finalization step and no operation was started since
AfterStop == lastOp \in {"stop", "sessionError"}

\* C35: once a stop has completed the segment list and the partial segment
\* stay as they are until a new operation is started, and the events that
\* arrive after the finalization step of the stop, while the session is
\* being closed or later, append no segment and leave no partial text that
\* is not finalized when the status becomes FINISHED.
C35_StopIsFinal ==
    [][(AfterStop /\ lastOp' = lastOp /\ stops' = stops) =>
          /\ status = "FINISHED" => segments' = segments /\ currentSegment' = currentSegment
          /\ status = "PROCESSING" =>
                /\ segments' = segments
                /\ Trim(currentSegment.text) = << >> => Trim(currentSegment'.text) = << >>]_vars

\* ---------------------------------------------------------------- C36
\* C36: the records held for translation are those of the file whose name
\* is shown, the one selected last; the end of the read of a file selected
\* before it installs neither records nor an error.
C36_RecordsOfLatestFile ==
    [][/\ srtSegments' # << >> =>
            /\ srtFileName' \in UploadIds
            /\ srtSegments' = ParseSrt(SrtContentOf(UploadDocs[srtFileName']))
       /\ \A n \in UploadIds :
            (ReaderOnloadDoc(n) \/ ReaderOnerror(n)) =>
                \/ n = srtFileName
                \/ srtSegments' = srtSegments /\ srtError' = srtError
                     /\ srtStatus' = srtStatus]_vars

\* ---------------------------------------------------------------- C37
\* C37: parsing is stable under reconstruction: the document rebuilt from
\* the records of parseSrt(d), with no replacement text, parses to the same
\* records: as many, with the same index, timing and text, in the same order.
C37_ParseStable ==
    srtContent # NoDoc => reparsedSrt = parsedSrt

\* ---------------------------------------------------------------- C38
Sign(n) == IF n > 0 THEN 1 ELSE IF n < 0 THEN 0 - 1 ELSE 0

\* C38: the capture callback stores every sample of [-1, 1] without
\* wrap-around: the Int16 value has the sign of the sample, and the sample
\* 1.0 is not stored as a negative value.
C38_CaptureKeepsSign ==
    /\ Len(int16) = Len(inputData)
    /\ \A i \in 1..Len(inputData) :
          /\ Sign(int16[i]) = Sign(inputData[i])
          /\ inputData[i] = SampleUnit => int16[i] >= 0

\* ---------------------------------------------------------------- C39
\* C39: whenever the status is ERROR there is an error message.
C39_ErrorHasMessage ==
    status = "ERROR" => error # NULL

====
